---- MODULE Spec2Model ----
(***************************************************************************)
(* A model of the tiny-yamux session engine: two endpoints (a client and a *)
(* server session) joined by two byte pipes.  Frames are kept as the bytes *)
(* the engine writes, so that framing, encoding and decoding are checked   *)
(* and not assumed.                                                        *)
(***************************************************************************)
EXTENDS Integers, Sequences, FiniteSets, TLC

(***************************************************************************)
(* Program constants                                                       *)
(***************************************************************************)
YAMUX_PROTO_VERSION == 0

YAMUX_DATA == 0
YAMUX_WINDOW_UPDATE == 1
YAMUX_PING == 2
YAMUX_GO_AWAY == 3

YAMUX_FLAG_SYN == 1
YAMUX_FLAG_ACK == 2
YAMUX_FLAG_FIN == 4
YAMUX_FLAG_RST == 8

YAMUX_HEADER_SIZE == 12
YAMUX_DEFAULT_WINDOW_SIZE == 262144
YAMUX_WINDOW_UPDATE_THRESHOLD == YAMUX_DEFAULT_WINDOW_SIZE \div 2
YAMUX_INITIAL_BUFFER_SIZE == 4096
YAMUX_MAX_DATA_FRAME_SIZE == 16384

\* yamux_default_config.max_stream_window_size
max_stream_window_size == 262144

\* the fields of yamux_default_config the engine reads
yamux_default_config ==
    [accept_backlog |-> 256, max_stream_window_size |-> max_stream_window_size]

(***************************************************************************)
(* Bounds of the model                                                     *)
(***************************************************************************)
\* stream objects one session may allocate (opened locally or by a SYN)
MaxStreams == 2
\* bytes that may wait unread in one pipe before an application call that
\* emits more is held back
MaxWire == 32
\* application reads ask for at most this many bytes
MaxRead == 2
\* stream_write calls per stream
MaxWrites == 1
\* frames an arbitrary peer may send (SpecInject)
MaxInject == 3
\* calls (open, accept, read, write, close) one application makes
MaxCalls == 3

Ends == {"c", "s"}
Peer(e) == IF e = "c" THEN "s" ELSE "c"
IsClient(e) == e = "c"

Min(a, b) == IF a < b THEN a ELSE b

(***************************************************************************)
(* Bit tests and big-endian 32-bit fields                                  *)
(***************************************************************************)
HasFlag(flags, f) == (flags \div f) % 2 = 1

BE32(x) == << (x \div 16777216) % 256, (x \div 65536) % 256, (x \div 256) % 256, x % 256 >>

\* A uint32 of 2^31 or more is held as the negative number with the same 32 bits.
FromBE32(b) ==
    (IF b[1] >= 128 THEN b[1] - 256 ELSE b[1]) * 16777216 + b[2] * 65536 + b[3] * 256 + b[4]

\* 0xFFFFFFFF
U32Max == -1

\* a + b in uint32, for 0 <= b < 2^31
U32Add(a, b) ==
    IF a >= 0 /\ a > 2147483647 - b
    THEN (a - 2147483647 - 1) + (b - 2147483647 - 1)
    ELSE a + b

Take(s, n) == SubSeq(s, 1, Min(n, Len(s)))
Drop(s, n) == SubSeq(s, Min(n, Len(s)) + 1, Len(s))

(***************************************************************************)
(* Frame codec                                                             *)
(***************************************************************************)
Header(type, flags, stream_id, length) ==
    [version |-> YAMUX_PROTO_VERSION, type |-> type, flags |-> flags,
     stream_id |-> stream_id, length |-> length]

yamux_encode_header(h) ==
    << h.version, h.type, (h.flags \div 256) % 256, h.flags % 256 >>
        \o BE32(h.stream_id) \o BE32(h.length)

\* a decoder that reads stream_id least-significant byte first
yamux_decode_header_LowFirst(buffer) ==
    IF Len(buffer) < 8 THEN [res |-> "ERR_INVALID", header |-> Header(0, 0, 0, 0)]
    ELSE IF buffer[1] # YAMUX_PROTO_VERSION \/ buffer[2] > YAMUX_GO_AWAY
        THEN [res |-> "ERR_PROTOCOL", header |-> Header(0, 0, 0, 0)]
    ELSE [res |-> "OK",
          header |-> [version |-> buffer[1], type |-> buffer[2],
                      flags |-> buffer[3] * 256 + buffer[4],
                      stream_id |-> FromBE32(<< buffer[8], buffer[7], buffer[6], buffer[5] >>),
                      length |-> FromBE32(SubSeq(buffer, 9, 12))]]

\* [res, header]; the header is meaningful when res = "OK"
yamux_decode_header(buffer) ==
    IF Len(buffer) < 8 THEN [res |-> "ERR_INVALID", header |-> Header(0, 0, 0, 0)]
    ELSE IF buffer[1] # YAMUX_PROTO_VERSION
        THEN [res |-> "ERR_PROTOCOL", header |-> Header(0, 0, 0, 0)]
    ELSE IF buffer[2] > YAMUX_GO_AWAY
        THEN [res |-> "ERR_PROTOCOL", header |-> Header(0, 0, 0, 0)]
    ELSE [res |-> "OK",
          header |-> [version |-> buffer[1], type |-> buffer[2],
                      flags |-> buffer[3] * 256 + buffer[4],
                      stream_id |-> FromBE32(SubSeq(buffer, 5, 8)),
                      length |-> FromBE32(SubSeq(buffer, 9, 12))]]

(***************************************************************************)
(* Receive buffer: data holds the bytes [0, used), pos is the read cursor  *)
(***************************************************************************)
yamux_buffer_init(initial_size) == [data |-> << >>, pos |-> 0, size |-> initial_size]

yamux_buffer_free == [data |-> << >>, pos |-> 0, size |-> 0]

yamux_buffer_write(buffer, bytes) ==
    LET used == Len(buffer.data)
        need == used + Len(bytes)
        new_size == IF need > buffer.size
                    THEN (IF buffer.size * 2 < need THEN need ELSE buffer.size * 2)
                    ELSE buffer.size
    IN  [data |-> buffer.data \o bytes, pos |-> buffer.pos, size |-> new_size]

\* [buffer, out]: out are the bytes copied to the caller
yamux_buffer_read(buffer, len) ==
    LET available == Len(buffer.data) - buffer.pos
        n == IF len > available THEN available ELSE len
    IN  [buffer |-> [buffer EXCEPT !.pos = buffer.pos + n],
         out |-> SubSeq(buffer.data, buffer.pos + 1, buffer.pos + n)]

\* a compaction that discards the unread bytes with the read ones
yamux_buffer_compact_DropsUnread(buffer) ==
    IF buffer.pos = 0 THEN buffer
    ELSE [data |-> << >>, pos |-> 0, size |-> buffer.size]

yamux_buffer_compact(buffer) ==
    IF buffer.pos = 0 THEN buffer
    ELSE [data |-> SubSeq(buffer.data, buffer.pos + 1, Len(buffer.data)),
          pos |-> 0, size |-> buffer.size]

Unread(buffer) == SubSeq(buffer.data, buffer.pos + 1, Len(buffer.data))

(***************************************************************************)
(* State                                                                   *)
(***************************************************************************)
VARIABLES
    next_stream_id,     \* [Ends -> Nat]      session->next_stream_id
    go_away_received,   \* [Ends -> BOOLEAN]  session->go_away_received
    streams,            \* [Ends -> Seq]      session->streams[0..stream_count), 0 is NULL
    accept_queue,       \* [Ends -> Seq]      session->accept_queue, head first
    stream,             \* [Ends -> Seq]      the stream objects a session has allocated
    wire,               \* [Ends -> Seq]      bytes written by the peer, not yet read
    app,                \* [Ends -> SUBSET]   stream handles the application holds
    hist,               \* [Ends -> Seq]      per stream object: what was written, read, granted
    config,             \* [Ends -> record]   session->config
    recv_buf_size,      \* [Ends -> Nat]      session->recv_buf_size, 0 while recv_buf is NULL
    alive,              \* [Ends -> BOOLEAN]  the process holding the session has not crashed
    linked,             \* which of the two definitions of yamux_handle_ping the build links
    injected,           \* frames sent by an arbitrary peer so far
    calls,              \* [Ends -> Nat]      calls the application has made
    last                \* the last call: what it was given, returned, consumed and emitted

vars == << next_stream_id, go_away_received, streams, accept_queue, stream, wire,
           app, hist, config, recv_buf_size, alive, linked, injected, calls, last >>

(***************************************************************************)
(* The session as the handlers see it: the fields of struct yamux_session, *)
(* the stream objects it points to, the read side (inb) and what has been  *)
(* written to the transport during the call (out).                         *)
(***************************************************************************)
Session(e) ==
    [client |-> IsClient(e),
     config |-> config[e],
     recv_buf_size |-> recv_buf_size[e],
     alive |-> TRUE,
     linked |-> linked,
     impl |-> "handlers",
     ub |-> "zeros",
     io |-> "ok",
     next_stream_id |-> next_stream_id[e],
     go_away_received |-> go_away_received[e],
     streams |-> streams[e],
     accept_queue |-> accept_queue[e],
     stream |-> stream[e],
     hist |-> hist[e],
     inb |-> wire[e],
     out |-> << >>]

\* What a call does where the C standard leaves its behaviour undefined: the
\* process crashes, or it carries on, reading zeros or ones where it reads
\* memory it does not own.
UBChoices == {"crash", "zeros", "ones"}

\* the two files that define yamux_handle_ping
Impls == {"handlers", "session_utils"}

\* the session as a call sees it that resolves undefined behaviour as ub and,
\* should it be the first to reach yamux_handle_ping, finds impl linked
SessionWith(e, ub, impl) == [Session(e) EXCEPT !.ub = ub, !.impl = impl]

\* the process dies during the call
Crash(S) == [res |-> "CRASH", S |-> [S EXCEPT !.alive = FALSE]]

\* n bytes read from memory the caller does not own
Garbage(S, n) == [i \in 1..n |-> IF S.ub = "ones" THEN 255 ELSE 0]

NewHist == [wrote |-> << >>, got |-> << >>, rcvd |-> << >>, credit |-> 0, writes |-> 0,
            fin_close |-> FALSE, fin_reply |-> FALSE, fin_seen |-> FALSE, granted |-> 0,
            early |-> FALSE, auto |-> FALSE]

\* What io.write does with the buffer it is given: the transport takes all of
\* it, takes the first half of it and returns that count, or takes nothing and
\* returns -1.
IoOutcomes == {"ok", "short", "fail"}

\* the session as a call sees it whose transport treats every write as io
SessionIo(e, io) == [Session(e) EXCEPT !.io = io]

\* the bytes the transport takes of a buffer
IoTaken(S, bytes) ==
    CASE S.io = "ok" -> bytes
      [] S.io = "short" -> Take(bytes, Len(bytes) \div 2)
      [] OTHER -> << >>

\* io.write's return value
IoResult(S, bytes) == IF S.io = "fail" THEN -1 ELSE Len(IoTaken(S, bytes))

\* io.write: the session after the call
IoWrite(S, bytes) == [S EXCEPT !.out = S.out \o IoTaken(S, bytes)]

(***************************************************************************)
(* Stream table                                                            *)
(***************************************************************************)
\* index of the slot holding a stream with this id, 0 when absent
SlotOf(S, stream_id) ==
    LET hits == {i \in 1..Len(S.streams) :
                    S.streams[i] # 0 /\ S.stream[S.streams[i]].id = stream_id}
    IN  IF hits = {} THEN 0 ELSE CHOOSE i \in hits : \A j \in hits : i <= j

\* handle of the stream, 0 (NULL) when absent
yamux_get_stream(S, stream_id) ==
    IF SlotOf(S, stream_id) = 0 THEN 0 ELSE S.streams[SlotOf(S, stream_id)]

\* [res, S]
\* yamux_add_stream without its lookup of the id
yamux_add_stream_NoLookup(S, h) ==
    IF S.go_away_received THEN [res |-> "ERR_CLOSED", S |-> S]
    ELSE LET free == {i \in 1..Len(S.streams) : S.streams[i] = 0}
         IN  IF free # {}
             THEN [res |-> "OK",
                   S |-> [S EXCEPT !.streams[CHOOSE i \in free : \A j \in free : i <= j] = h]]
             ELSE [res |-> "OK", S |-> [S EXCEPT !.streams = Append(S.streams, h)]]

yamux_add_stream(S, h) ==
    IF S.go_away_received THEN [res |-> "ERR_CLOSED", S |-> S]
    ELSE IF yamux_get_stream(S, S.stream[h].id) # 0 THEN [res |-> "ERR_INVALID", S |-> S]
    ELSE LET free == {i \in 1..Len(S.streams) : S.streams[i] = 0}
         IN  IF free # {}
             THEN [res |-> "OK",
                   S |-> [S EXCEPT !.streams[CHOOSE i \in free : \A j \in free : i <= j] = h]]
             ELSE [res |-> "OK", S |-> [S EXCEPT !.streams = Append(S.streams, h)]]

\* [res, S]
yamux_remove_stream(S, stream_id) ==
    LET i == SlotOf(S, stream_id)
    IN  IF i = 0 THEN [res |-> "ERR_INVALID", S |-> S]
        ELSE IF i = Len(S.streams)
            THEN [res |-> "OK", S |-> [S EXCEPT !.streams = SubSeq(S.streams, 1, i - 1)]]
        ELSE [res |-> "OK", S |-> [S EXCEPT !.streams[i] = 0]]

\* yamux_enqueue_stream_for_accept linking the stream at the head, as
\* yamux_enqueue_stream does
yamux_enqueue_stream_for_accept_AtHead(S, h) == [S EXCEPT !.accept_queue = << h >> \o S.accept_queue]

yamux_enqueue_stream_for_accept(S, h) == [S EXCEPT !.accept_queue = Append(S.accept_queue, h)]

(***************************************************************************)
(* Frame handlers.  Each yields [res, S]: the result code and the session  *)
(* as the call leaves it.                                                  *)
(***************************************************************************)
Ret(res, S) == [res |-> res, S |-> S]

\* uint32_t comparison.  A uint32_t value of 2^31 or more is held as the value
\* minus 2^32, a negative number, so that a subtraction that wraps below zero
\* keeps its result: 1 - 2 is -1, which stands for 4294967295.
U32Less(a, b) == IF (a >= 0) = (b >= 0) THEN a < b ELSE b < 0

\* the window update frame yamux_handle_data builds: the header is encoded into
\* frame[0..12) and the window size is then stored over frame[8..12)
DataWindowUpdateFrame(stream_id) ==
    SubSeq(yamux_encode_header(Header(YAMUX_WINDOW_UPDATE, 0, stream_id, 4)), 1, 8)
        \o BE32(YAMUX_DEFAULT_WINDOW_SIZE)

\* a handler that takes no notice of FIN
DataFlagState_IgnoresFin(flags, state) == state

\* the state a DATA frame's flags leave the stream in
DataFlagState(flags, state) ==
    IF HasFlag(flags, YAMUX_FLAG_FIN)
    THEN (IF state = "ESTABLISHED" THEN "FIN_RECV"
          ELSE IF state = "FIN_SENT" THEN "CLOSED"
          ELSE state)
    ELSE state

yamux_handle_data(S, header) ==
    LET h == yamux_get_stream(S, header.stream_id)
    IN  IF h = 0 THEN Ret("ERR_INVALID_STREAM", S)
        ELSE IF S.stream[h].state \in {"CLOSED", "FIN_RECV"} THEN Ret("ERR_CLOSED", S)
        ELSE
        LET S1 == [S EXCEPT !.stream[h].state = DataFlagState(header.flags, @),
                            !.hist[h].fin_seen =
                                @ \/ (HasFlag(header.flags, YAMUX_FLAG_FIN)
                                         /\ S.stream[h].state = "ESTABLISHED")]
        IN  IF header.length = 0 THEN Ret("OK", S1)
            ELSE
            LET bytes == Take(S1.inb, header.length)
                S2 == [S1 EXCEPT !.inb = Drop(@, header.length),
                                 !.recv_buf_size =
                                     IF header.length > @ THEN header.length ELSE @]
            IN  IF Len(bytes) < header.length THEN Ret("ERR_IO", S2)
                ELSE
                LET window == S2.stream[h].recv_window - Len(bytes)
                    S3 == [S2 EXCEPT !.stream[h].recvbuf = yamux_buffer_write(@, bytes),
                                     !.stream[h].recv_window = window,
                                     !.hist[h].rcvd = @ \o bytes]
                IN  IF U32Less(window, YAMUX_WINDOW_UPDATE_THRESHOLD)
                    THEN Ret("OK",
                             [IoWrite(S3, DataWindowUpdateFrame(S3.stream[h].id))
                                 EXCEPT !.stream[h].recv_window = YAMUX_DEFAULT_WINDOW_SIZE])
                    ELSE Ret("OK", S3)

\* a stream object as the SYN branch of yamux_handle_window_update fills it in
\* the stream a SYN creates, were its recv_window the default window
NewServerStream_DefaultWindow(session_config, stream_id, value) ==
    [id |-> stream_id, state |-> "SYN_RECV",
     recvbuf |-> yamux_buffer_init(YAMUX_INITIAL_BUFFER_SIZE),
     send_window |-> value, recv_window |-> YAMUX_DEFAULT_WINDOW_SIZE,
     freed |-> FALSE]

NewServerStream(session_config, stream_id, value) ==
    [id |-> stream_id, state |-> "SYN_RECV",
     recvbuf |-> yamux_buffer_init(YAMUX_INITIAL_BUFFER_SIZE),
     send_window |-> value, recv_window |-> session_config.max_stream_window_size,
     freed |-> FALSE]

\* a SYN branch that does not look for the id in the table
WuSyn_NoDuplicateCheck(C, header, value) ==
    IF ~HasFlag(header.flags, YAMUX_FLAG_SYN) \/ C.S.client THEN C
    ELSE
    LET n == Len(C.S.stream) + 1
        S1 == [C.S EXCEPT !.stream = Append(@, NewServerStream(C.S.config, header.stream_id, value)),
                          !.hist = Append(@, [NewHist EXCEPT !.credit = value])]
        add == yamux_add_stream(S1, n)
    IN  IF add.res # "OK" THEN [C EXCEPT !.res = "ERR_INTERNAL"]
        ELSE
        LET S2 == IoWrite(add.S,
                      yamux_encode_header(Header(YAMUX_WINDOW_UPDATE,
                          YAMUX_FLAG_SYN + YAMUX_FLAG_ACK, header.stream_id, 4))
                      \o BE32(add.S.stream[n].recv_window))
            S3 == [S2 EXCEPT !.stream[n].state = "ESTABLISHED"]
        IN  [res |-> "", S |-> yamux_enqueue_stream_for_accept(S3, n), h |-> n]

\* The stages of yamux_handle_window_update work on [res, S, h]: h is the local
\* variable `stream` (0 is NULL) and res = "" while the function has not returned.
WuSyn(C, header, value) ==
    IF ~HasFlag(header.flags, YAMUX_FLAG_SYN) \/ C.S.client THEN C
    ELSE IF C.h # 0 THEN [C EXCEPT !.res = "ERR_PROTOCOL"]
    ELSE
    LET n == Len(C.S.stream) + 1
        S1 == [C.S EXCEPT !.stream = Append(@, NewServerStream(C.S.config, header.stream_id, value)),
                          !.hist = Append(@, [NewHist EXCEPT !.credit = value])]
        add == yamux_add_stream(S1, n)
    IN  IF add.res # "OK" THEN [C EXCEPT !.res = "ERR_INTERNAL"]
        ELSE
        LET S2 == IoWrite(add.S,
                      yamux_encode_header(Header(YAMUX_WINDOW_UPDATE,
                          YAMUX_FLAG_SYN + YAMUX_FLAG_ACK, header.stream_id, 4))
                      \o BE32(add.S.stream[n].recv_window))
            S3 == [S2 EXCEPT !.stream[n].state = "ESTABLISHED"]
        IN  [res |-> "", S |-> yamux_enqueue_stream_for_accept(S3, n), h |-> n]

\* a handler that adds the SYN+ACK value to the window instead of storing it
WuAckStream_AddsValue(client, flags, value, st, hs) ==
    IF client /\ st.state = "SYN_SENT" /\ HasFlag(flags, YAMUX_FLAG_SYN)
    THEN [st |-> [st EXCEPT !.send_window = @ + value, !.state = "ESTABLISHED"],
          hs |-> [hs EXCEPT !.credit = value]]
    ELSE IF st.state = "FIN_SENT" /\ HasFlag(flags, YAMUX_FLAG_FIN)
    THEN [st |-> [st EXCEPT !.state = "CLOSED"], hs |-> hs]
    ELSE [st |-> st, hs |-> hs]

\* what a frame with ACK does to an existing stream
WuAckStream(client, flags, value, st, hs) ==
    IF client /\ st.state = "SYN_SENT" /\ HasFlag(flags, YAMUX_FLAG_SYN)
    THEN [st |-> [st EXCEPT !.send_window = value, !.state = "ESTABLISHED"],
          hs |-> [hs EXCEPT !.credit = value]]
    ELSE IF st.state = "FIN_SENT" /\ HasFlag(flags, YAMUX_FLAG_FIN)
    THEN [st |-> [st EXCEPT !.state = "CLOSED"], hs |-> hs]
    ELSE [st |-> st, hs |-> hs]

WuAck(C, header, value) ==
    IF C.res # "" \/ ~HasFlag(header.flags, YAMUX_FLAG_ACK) \/ C.h = 0 THEN C
    ELSE LET r == WuAckStream(C.S.client, header.flags, value, C.S.stream[C.h], C.S.hist[C.h])
         IN  [C EXCEPT !.S.stream[C.h] = r.st, !.S.hist[C.h] = r.hs]

WuCredit(C, header, value) ==
    IF C.res # "" \/ HasFlag(header.flags, YAMUX_FLAG_SYN)
         \/ HasFlag(header.flags, YAMUX_FLAG_ACK) \/ C.h = 0 THEN C
    ELSE [C EXCEPT !.S.stream[C.h].send_window = @ + value,
                   !.S.hist[C.h].credit = @ + value]

WuFin(C, header) ==
    IF C.res # "" \/ ~HasFlag(header.flags, YAMUX_FLAG_FIN)
         \/ HasFlag(header.flags, YAMUX_FLAG_ACK)
         \/ HasFlag(header.flags, YAMUX_FLAG_SYN) \/ C.h = 0 THEN C
    ELSE [C EXCEPT !.S = IoWrite([C.S EXCEPT !.stream[C.h].state = "FIN_RECV"],
                             yamux_encode_header(Header(YAMUX_WINDOW_UPDATE,
                                 YAMUX_FLAG_FIN + YAMUX_FLAG_ACK, C.S.stream[C.h].id, 0)))]

WuRst(C, header) ==
    IF C.res # "" \/ ~HasFlag(header.flags, YAMUX_FLAG_RST) \/ C.h = 0 THEN C
    ELSE [C EXCEPT !.S = yamux_remove_stream([C.S EXCEPT !.stream[C.h].state = "CLOSED"],
                                             C.S.stream[C.h].id).S]

yamux_handle_window_update(S, header) ==
    IF header.length # 4 THEN Ret("ERR_PROTOCOL", S)
    ELSE IF Len(S.inb) < 4 THEN Ret("ERR_IO", [S EXCEPT !.inb = << >>])
    ELSE
    LET value == FromBE32(Take(S.inb, 4))
        S1 == [S EXCEPT !.inb = Drop(@, 4)]
        C0 == [res |-> "", S |-> S1, h |-> yamux_get_stream(S1, header.stream_id)]
        C1 == WuSyn(C0, header, value)
        C2 == WuAck(C1, header, value)
        C3 == WuCredit(C2, header, value)
        C4 == WuFin(C3, header)
        C5 == WuRst(C4, header)
    IN  IF C1.res # "" THEN Ret(C1.res, C1.S) ELSE Ret("OK", C5.S)

\* ping_data[8] zero-filled, then overlaid with what was read
PingData(bytes) == [i \in 1..8 |-> IF i <= Len(bytes) THEN bytes[i] ELSE 0]

\* the first 8 bytes of the PING reply's header, which is all of it that is sent
PingReplyHead(length) ==
    SubSeq(yamux_encode_header(Header(YAMUX_PING, YAMUX_FLAG_ACK, 0, length)), 1, 8)

\* yamux_handle_ping as yamux_handlers.c defines it.  The reply's header is
\* encoded, 12 bytes, into session->recv_buf, which is NULL until a DATA payload
\* has been read and then as long as the longest payload so far.  Given NULL,
\* yamux_encode_header refuses and io.write is handed a null buffer, which the
\* transport either rejects or dies reading.  The payload echoed is
\* header->length bytes of ping_data[8].
yamux_handle_ping_handlers(S, header) ==
    IF HasFlag(header.flags, YAMUX_FLAG_ACK) THEN Ret("OK", S)
    ELSE
    LET want == IF header.length < 8 THEN header.length ELSE 8
        bytes == Take(S.inb, want)
        S1 == [S EXCEPT !.inb = Drop(@, want)]
    IN  IF S1.recv_buf_size < YAMUX_HEADER_SIZE /\ S1.ub = "crash" THEN Crash(S1)
        ELSE IF S1.recv_buf_size = 0 THEN Ret("ERR_IO", S1)
        ELSE
        LET S2 == IoWrite(S1, PingReplyHead(header.length))
        IN  IF header.length = 0 THEN Ret("OK", S2)
            ELSE IF header.length <= 8
                THEN Ret("OK", IoWrite(S2, Take(PingData(bytes), header.length)))
            ELSE IF S2.ub = "crash" THEN Crash(S2)
            ELSE Ret("OK", IoWrite(S2, PingData(bytes) \o Garbage(S2, header.length - 8)))

\* yamux_handle_ping as yamux_session_utils.c defines it.  The reply's header
\* is encoded, 12 bytes, into frame[8]; a build that guards the stack aborts
\* when the function returns.
yamux_handle_ping_session_utils(S, header) ==
    IF HasFlag(header.flags, YAMUX_FLAG_SYN)
    THEN LET S1 == IoWrite(S, PingReplyHead(0))
         IN  IF S1.ub = "crash" THEN Crash(S1) ELSE Ret("OK", S1)
    ELSE Ret("OK", S)

\* whichever definition the build links; the first call settles it
yamux_handle_ping(S, header) ==
    LET S1 == [S EXCEPT !.linked = IF @ = "unknown" THEN S.impl ELSE @]
    IN  IF S1.linked = "session_utils"
        THEN yamux_handle_ping_session_utils(S1, header)
        ELSE yamux_handle_ping_handlers(S1, header)

yamux_handle_go_away(S, header) ==
    IF header.length # 4 THEN Ret("ERR_PROTOCOL", S)
    ELSE IF Len(S.inb) < 4 THEN Ret("ERR_IO", [S EXCEPT !.inb = << >>])
    ELSE Ret("OK", [S EXCEPT !.inb = Drop(@, 4), !.go_away_received = TRUE])

NoHeader == Header(0, 0, 0, 0)

\* yamux_session_process without its check of go_away_received
yamux_session_process_IgnoresGoAway(S) ==
    IF Len(S.inb) < YAMUX_HEADER_SIZE
    THEN [res |-> "ERR_IO", S |-> [S EXCEPT !.inb = << >>], header |-> NoHeader,
          decoded |-> FALSE]
    ELSE
    LET d == yamux_decode_header(Take(S.inb, YAMUX_HEADER_SIZE))
        S1 == [S EXCEPT !.inb = Drop(@, YAMUX_HEADER_SIZE)]
        r == CASE d.header.type = YAMUX_DATA -> yamux_handle_data(S1, d.header)
               [] d.header.type = YAMUX_WINDOW_UPDATE -> yamux_handle_window_update(S1, d.header)
               [] d.header.type = YAMUX_PING -> yamux_handle_ping(S1, d.header)
               [] d.header.type = YAMUX_GO_AWAY -> yamux_handle_go_away(S1, d.header)
               [] OTHER -> Ret("ERR_PROTOCOL", S1)
    IN  IF d.res # "OK"
        THEN [res |-> d.res, S |-> S1, header |-> NoHeader, decoded |-> FALSE]
        ELSE [res |-> r.res, S |-> r.S, header |-> d.header, decoded |-> TRUE]

\* [res, S, header, decoded]
yamux_session_process(S) ==
    IF S.go_away_received
    THEN [res |-> "ERR_CLOSED", S |-> S, header |-> NoHeader, decoded |-> FALSE]
    ELSE IF Len(S.inb) < YAMUX_HEADER_SIZE
    THEN [res |-> "ERR_IO", S |-> [S EXCEPT !.inb = << >>], header |-> NoHeader,
          decoded |-> FALSE]
    ELSE
    LET d == yamux_decode_header(Take(S.inb, YAMUX_HEADER_SIZE))
        S1 == [S EXCEPT !.inb = Drop(@, YAMUX_HEADER_SIZE)]
        r == CASE d.header.type = YAMUX_DATA -> yamux_handle_data(S1, d.header)
               [] d.header.type = YAMUX_WINDOW_UPDATE -> yamux_handle_window_update(S1, d.header)
               [] d.header.type = YAMUX_PING -> yamux_handle_ping(S1, d.header)
               [] d.header.type = YAMUX_GO_AWAY -> yamux_handle_go_away(S1, d.header)
               [] OTHER -> Ret("ERR_PROTOCOL", S1)
    IN  IF d.res # "OK"
        THEN [res |-> d.res, S |-> S1, header |-> NoHeader, decoded |-> FALSE]
        ELSE [res |-> r.res, S |-> r.S, header |-> d.header, decoded |-> TRUE]

(***************************************************************************)
(* Stream operations.  Each yields [res, S, ...].                          *)
(***************************************************************************)
\* a stream object as yamux_stream_open_detailed fills it in before the SYN is sent
NewLocalStream(id) ==
    [id |-> id, state |-> "IDLE",
     recvbuf |-> yamux_buffer_init(YAMUX_INITIAL_BUFFER_SIZE),
     send_window |-> YAMUX_DEFAULT_WINDOW_SIZE, recv_window |-> YAMUX_DEFAULT_WINDOW_SIZE,
     freed |-> FALSE]

\* yamux_stream_open_detailed without its check of go_away_received
yamux_stream_open_detailed_IgnoresGoAway(S, stream_id) ==
    LET id == IF stream_id = 0 THEN S.next_stream_id ELSE stream_id
        S1 == IF stream_id = 0 THEN [S EXCEPT !.next_stream_id = U32Add(@, 2)] ELSE S
        st == NewLocalStream(id)
        frame == yamux_encode_header(Header(YAMUX_WINDOW_UPDATE, YAMUX_FLAG_SYN, id, 4))
                     \o BE32(st.recv_window)
        S2 == IoWrite(S1, frame)
        n == Len(S2.stream) + 1
        S3 == [S2 EXCEPT !.stream = Append(@, st),
                         !.hist = Append(@, [NewHist EXCEPT !.auto = (stream_id = 0)])]
        add == yamux_add_stream(S3, n)
    IN  IF stream_id = U32Max THEN [res |-> "ERR_INVALID", S |-> S, h |-> 0]
        ELSE IF IoResult(S1, frame) # Len(frame) THEN [res |-> "ERR_IO", S |-> S2, h |-> 0]
        ELSE IF add.res # "OK" THEN [res |-> add.res, S |-> S2, h |-> 0]
        ELSE [res |-> "OK", S |-> [add.S EXCEPT !.stream[n].state = "SYN_SENT"], h |-> n]

\* [res, S, h]: h is the new stream's handle, 0 when none is returned
yamux_stream_open_detailed(S, stream_id) ==
    IF S.go_away_received THEN [res |-> "ERR_CLOSED", S |-> S, h |-> 0]
    ELSE
    LET id == IF stream_id = 0 THEN S.next_stream_id ELSE stream_id
        S1 == IF stream_id = 0 THEN [S EXCEPT !.next_stream_id = U32Add(@, 2)] ELSE S
        st == NewLocalStream(id)
        frame == yamux_encode_header(Header(YAMUX_WINDOW_UPDATE, YAMUX_FLAG_SYN, id, 4))
                     \o BE32(st.recv_window)
        S2 == IoWrite(S1, frame)
        n == Len(S2.stream) + 1
        S3 == [S2 EXCEPT !.stream = Append(@, st),
                         !.hist = Append(@, [NewHist EXCEPT !.auto = (stream_id = 0)])]
        add == yamux_add_stream(S3, n)
    IN  IF stream_id = U32Max THEN [res |-> "ERR_INVALID", S |-> S, h |-> 0]
        ELSE IF IoResult(S1, frame) # Len(frame) THEN [res |-> "ERR_IO", S |-> S2, h |-> 0]
        ELSE IF add.res # "OK" THEN [res |-> add.res, S |-> S2, h |-> 0]
        ELSE [res |-> "OK", S |-> [add.S EXCEPT !.stream[n].state = "SYN_SENT"], h |-> n]

\* [res, S, h]
yamux_stream_accept(S) ==
    IF S.go_away_received THEN [res |-> "ERR_CLOSED", S |-> S, h |-> 0]
    ELSE IF S.accept_queue = << >> THEN [res |-> "ERR_TIMEOUT", S |-> S, h |-> 0]
    ELSE LET h == Head(S.accept_queue)
         IN  [res |-> "OK",
              S |-> [S EXCEPT !.accept_queue = Tail(@), !.stream[h].state = "ESTABLISHED"],
              h |-> h]

\* the frame yamux_stream_close sends
CloseFrame(stream_id, reset) ==
    yamux_encode_header(Header(YAMUX_DATA,
                               IF reset THEN YAMUX_FLAG_RST ELSE YAMUX_FLAG_FIN,
                               stream_id, 0))

\* the state yamux_stream_close leaves a stream that was not CLOSED in
CloseState(state, reset) == "CLOSED"

\* yamux_stream_close giving up when the transport does not take the whole frame
yamux_stream_close_ChecksWrite(S, h, reset) ==
    IF S.stream[h].state = "CLOSED" THEN Ret("OK", S)
    ELSE IF IoResult(S, CloseFrame(S.stream[h].id, reset)) # YAMUX_HEADER_SIZE
        THEN Ret("ERR_IO", IoWrite(S, CloseFrame(S.stream[h].id, reset)))
    ELSE
    LET S1 == IoWrite(S, CloseFrame(S.stream[h].id, reset))
        S2 == [S1 EXCEPT !.stream[h].state = CloseState(@, reset)]
        S3 == yamux_remove_stream(S2, S2.stream[h].id).S
    IN  Ret("OK", [S3 EXCEPT !.stream[h].recvbuf = yamux_buffer_free,
                             !.stream[h].freed = reset,
                             !.hist[h].fin_close = ~reset /\ S.stream[h].state = "ESTABLISHED",
                             !.hist[h].fin_reply = ~reset /\ S.stream[h].state = "FIN_RECV"])

\* [res, S]
yamux_stream_close(S, h, reset) ==
    IF S.stream[h].state = "CLOSED" THEN Ret("OK", S)
    ELSE
    LET S1 == IoWrite(S, CloseFrame(S.stream[h].id, reset))
        S2 == [S1 EXCEPT !.stream[h].state = CloseState(@, reset)]
        S3 == yamux_remove_stream(S2, S2.stream[h].id).S
    IN  Ret("OK", [S3 EXCEPT !.stream[h].recvbuf = yamux_buffer_free,
                             !.stream[h].freed = reset,
                             !.hist[h].fin_close = ~reset /\ S.stream[h].state = "ESTABLISHED",
                             !.hist[h].fin_reply = ~reset /\ S.stream[h].state = "FIN_RECV"])

\* a read whose window update grants nothing
ReadWindowIncrement_Nothing(recv_window, n) == 0

\* the increment yamux_stream_read puts in its window update after reading n > 0 bytes
ReadWindowIncrement(recv_window, n) ==
    LET inc == YAMUX_DEFAULT_WINDOW_SIZE - recv_window
    IN  IF inc = 0 THEN n
        ELSE IF inc < n /\ recv_window + n <= YAMUX_DEFAULT_WINDOW_SIZE THEN n
        ELSE inc

\* [res, S, out]: out are the bytes handed to the caller
yamux_stream_read(S, h, len) ==
    IF S.stream[h].state = "CLOSED" THEN [res |-> "ERR_CLOSED", S |-> S, out |-> << >>]
    ELSE
    LET r == yamux_buffer_read(S.stream[h].recvbuf, len)
        S1 == [S EXCEPT !.stream[h].recvbuf = r.buffer, !.hist[h].got = @ \o r.out,
                        !.hist[h].granted =
                            IF Len(r.out) > 0
                            THEN @ + ReadWindowIncrement(S.stream[h].recv_window, Len(r.out))
                            ELSE @]
        S2 == IF Len(r.out) > 0
              THEN IoWrite(S1, yamux_encode_header(
                                   Header(YAMUX_WINDOW_UPDATE, 0, S1.stream[h].id, 4))
                               \o BE32(ReadWindowIncrement(S1.stream[h].recv_window, Len(r.out))))
              ELSE S1
        b == S2.stream[h].recvbuf
    IN  [res |-> "OK",
         S |-> IF b.pos > 0 /\ b.pos = Len(b.data)
               THEN [S2 EXCEPT !.stream[h].recvbuf = yamux_buffer_compact(b)]
               ELSE S2,
         out |-> r.out]

\* The chunk sizes the send loop of yamux_stream_write produces.  send_window
\* is the stream's field, already reduced by the chunks sent; the loop compares
\* against send_window - total_written, computed in size_t, which wraps to a
\* huge value when total_written exceeds send_window.
RECURSIVE WriteLoop(_, _, _)
WriteLoop(len_to_write, total_written, send_window) ==
    IF total_written >= len_to_write THEN << >>
    ELSE
    LET rest == len_to_write - total_written
        capped == IF rest > YAMUX_MAX_DATA_FRAME_SIZE THEN YAMUX_MAX_DATA_FRAME_SIZE ELSE rest
        room == send_window - total_written
        chunk_size == IF room >= 0 /\ capped > room /\ room < YAMUX_MAX_DATA_FRAME_SIZE
                      THEN room ELSE capped
    IN  IF chunk_size = 0 THEN << >>
        ELSE << chunk_size >>
                 \o WriteLoop(len_to_write, total_written + chunk_size, send_window - chunk_size)

\* chunk sizes for a write of len bytes with the given send window
WriteChunks(len, send_window) ==
    WriteLoop(IF len > send_window THEN send_window ELSE len, 0, send_window)

RECURSIVE SumSeq(_)
SumSeq(q) == IF q = << >> THEN 0 ELSE Head(q) + SumSeq(Tail(q))

\* the DATA frames for the chunks, cut from data starting after `done` bytes
RECURSIVE DataFrames(_, _, _, _)
DataFrames(stream_id, data, chunks, done) ==
    IF chunks = << >> THEN << >>
    ELSE yamux_encode_header(Header(YAMUX_DATA, 0, stream_id, Head(chunks)))
             \o SubSeq(data, done + 1, done + Head(chunks))
             \o DataFrames(stream_id, data, Tail(chunks), done + Head(chunks))

\* yamux_stream_write refusing in CLOSED alone
WriteRefused_ClosedOnly(state) == state = "CLOSED"

\* states in which yamux_stream_write refuses
WriteRefused(state) == state \in {"CLOSED", "FIN_SENT", "FIN_RECV"}

\* [res, S, n, chunks]: n is *bytes_written_out
yamux_stream_write(S, h, data) ==
    LET st == S.stream[h]
        chunks == WriteChunks(Len(data), st.send_window)
        n == SumSeq(chunks)
    IN  IF WriteRefused(st.state) THEN [res |-> "ERR_CLOSED", S |-> S, n |-> 0, chunks |-> << >>]
        ELSE IF Len(data) = 0 THEN [res |-> "OK", S |-> S, n |-> 0, chunks |-> << >>]
        ELSE IF st.send_window = 0
            THEN [res |-> "ERR_WOULD_BLOCK", S |-> S, n |-> 0, chunks |-> << >>]
        ELSE [res |-> "OK",
              S |-> [IoWrite(S, DataFrames(st.id, data, chunks, 0))
                        EXCEPT !.stream[h].send_window = @ - n,
                               !.hist[h].wrote = @ \o Take(data, n),
                               !.hist[h].early = @ \/ st.state # "ESTABLISHED"],
              n |-> n, chunks |-> chunks]

(***************************************************************************)
(* Session operations.  Each yields [res, S].                              *)
(***************************************************************************)
\* the frame yamux_session_close sends: the GO_AWAY header is encoded into
\* frame[0..12) and the error code is then stored over frame[8..12)
GoAwayFrame(err) ==
    SubSeq(yamux_encode_header(Header(YAMUX_GO_AWAY, 0, 0, 4)), 1, 8) \o BE32(err)

\* the loop of yamux_session_close over streams[i], i < stream_count, where
\* closing the stream in the last slot lowers stream_count
RECURSIVE CloseStreams(_, _)
CloseStreams(S, i) ==
    IF i > Len(S.streams) THEN S
    ELSE IF S.streams[i] # 0
        THEN CloseStreams(yamux_stream_close(S, S.streams[i], TRUE).S, i + 1)
    ELSE CloseStreams(S, i + 1)

yamux_session_close(S, err) ==
    IF S.go_away_received THEN Ret("OK", S)
    ELSE LET S1 == IoWrite([S EXCEPT !.go_away_received = TRUE], GoAwayFrame(err))
         IN  Ret("OK", [CloseStreams(S1, 1) EXCEPT !.streams = << >>])

\* The request's header is encoded, 12 bytes, into frame[8], and sizeof(frame)
\* bytes are sent; a build that guards the stack aborts when the function
\* returns.
yamux_session_ping(S) ==
    IF S.go_away_received THEN Ret("ERR_CLOSED", S)
    ELSE LET S1 == IoWrite(S, SubSeq(yamux_encode_header(
                                         Header(YAMUX_PING, YAMUX_FLAG_SYN, 0, 0)), 1, 8))
         IN  IF S1.ub = "crash" THEN Crash(S1) ELSE Ret("OK", S1)

(***************************************************************************)
(* Calls.  One action per entry point; each records in `last` what the     *)
(* call was given, what it returned, what it read and what it wrote.       *)
(***************************************************************************)
NoLast ==
    [op |-> "init", e |-> "c", h |-> 0, res |-> "OK", n |-> 0, arg |-> 0, reset |-> FALSE,
     pre |-> "NONE", prew |-> 0, prerw |-> 0, header |-> NoHeader, decoded |-> FALSE, consumed |-> 0,
     out |-> << >>, data |-> << >>, table |-> {}, io |-> "ok"]

\* the session S replaces endpoint e's state; what it wrote goes to the peer
Commit(e, S, l) ==
    /\ next_stream_id' = [next_stream_id EXCEPT ![e] = S.next_stream_id]
    /\ go_away_received' = [go_away_received EXCEPT ![e] = S.go_away_received]
    /\ streams' = [streams EXCEPT ![e] = S.streams]
    /\ accept_queue' = [accept_queue EXCEPT ![e] = S.accept_queue]
    /\ stream' = [stream EXCEPT ![e] = S.stream]
    /\ hist' = [hist EXCEPT ![e] = S.hist]
    /\ config' = config
    /\ recv_buf_size' = [recv_buf_size EXCEPT ![e] = S.recv_buf_size]
    /\ alive' = [alive EXCEPT ![e] = S.alive]
    /\ linked' = S.linked
    /\ wire' = [wire EXCEPT ![e] = S.inb, ![Peer(e)] = @ \o S.out]
    /\ last' = [l EXCEPT !.e = e, !.consumed = Len(wire[e]) - Len(S.inb), !.out = S.out]

\* handles the application may still use: returned to it and not freed
Held(e) == {h \in app[e] : ~stream[e][h].freed}

Room(e, n) == Len(wire[Peer(e)]) + n <= MaxWire

\* the application at e makes one more call
Call(e) ==
    /\ alive[e]
    /\ calls[e] < MaxCalls
    /\ calls' = [calls EXCEPT ![e] = @ + 1]

Open(e) ==
    /\ Call(e)
    /\ Len(stream[e]) < MaxStreams
    /\ Room(e, 16)
    /\ LET r == yamux_stream_open_detailed(Session(e), 0)
       IN  /\ Commit(e, r.S, [NoLast EXCEPT !.op = "open", !.res = r.res, !.h = r.h])
           /\ app' = [app EXCEPT ![e] = IF r.h # 0 THEN @ \cup {r.h} ELSE @]
    /\ UNCHANGED injected

Accept(e) ==
    /\ Call(e)
    /\ accept_queue[e] # << >>
    /\ LET r == yamux_stream_accept(Session(e))
       IN  /\ Commit(e, r.S,
                     [NoLast EXCEPT !.op = "accept", !.res = r.res, !.h = r.h,
                                    !.pre = IF r.h # 0 THEN stream[e][r.h].state ELSE "NONE"])
           /\ app' = [app EXCEPT ![e] = IF r.h # 0 THEN @ \cup {r.h} ELSE @]
    /\ UNCHANGED injected

Close(e, h, reset) ==
    /\ Call(e)
    /\ h \in Held(e)
    /\ Room(e, 12)
    /\ LET r == yamux_stream_close(Session(e), h, reset)
       IN  Commit(e, r.S,
                  [NoLast EXCEPT !.op = "close", !.res = r.res, !.h = h, !.reset = reset,
                                 !.pre = stream[e][h].state])
    /\ UNCHANGED << app, injected >>

Read(e, h, len) ==
    /\ Call(e)
    /\ h \in Held(e)
    /\ Room(e, 16)
    /\ LET r == yamux_stream_read(Session(e), h, len)
       IN  Commit(e, r.S,
                  [NoLast EXCEPT !.op = "read", !.res = r.res, !.h = h, !.arg = len,
                                 !.n = Len(r.out), !.data = r.out,
                                 !.pre = stream[e][h].state])
    /\ UNCHANGED << app, injected >>

Write(e, h, data) ==
    /\ Call(e)
    /\ h \in Held(e)
    /\ hist[e][h].writes < MaxWrites
    /\ LET r == yamux_stream_write(Session(e), h, data)
       IN  Commit(e, [r.S EXCEPT !.hist[h].writes = @ + 1],
                  [NoLast EXCEPT !.op = "write", !.res = r.res, !.h = h, !.arg = Len(data),
                                 !.n = r.n, !.pre = stream[e][h].state,
                                 !.prew = stream[e][h].send_window])
    /\ UNCHANGED << app, injected >>

\* a SYN that would make the session allocate a stream
WouldAllocate(e) ==
    /\ ~go_away_received[e]
    /\ Len(wire[e]) >= YAMUX_HEADER_SIZE
    /\ LET d == yamux_decode_header(Take(wire[e], YAMUX_HEADER_SIZE))
       IN  /\ d.res = "OK"
           /\ d.header.type = YAMUX_WINDOW_UPDATE
           /\ HasFlag(d.header.flags, YAMUX_FLAG_SYN)
           /\ ~IsClient(e)

\* the stream a frame is addressed to, as the table stands before the call
Addressed(e) ==
    IF Len(wire[e]) >= YAMUX_HEADER_SIZE
    THEN yamux_get_stream(Session(e),
                          yamux_decode_header(Take(wire[e], YAMUX_HEADER_SIZE)).header.stream_id)
    ELSE 0

\* the call will reach yamux_handle_ping
PingAhead(e) ==
    /\ ~go_away_received[e]
    /\ Len(wire[e]) >= YAMUX_HEADER_SIZE
    /\ LET d == yamux_decode_header(Take(wire[e], YAMUX_HEADER_SIZE))
       IN  d.res = "OK" /\ d.header.type = YAMUX_PING

\* the payload length of a PING request at the head of the transport, else 0
PingEcho(e) ==
    IF Len(wire[e]) >= YAMUX_HEADER_SIZE
    THEN LET d == yamux_decode_header(Take(wire[e], YAMUX_HEADER_SIZE))
         IN  IF d.res = "OK" /\ d.header.type = YAMUX_PING
                  /\ ~HasFlag(d.header.flags, YAMUX_FLAG_ACK)
             THEN d.header.length ELSE 0
    ELSE 0

Process(e) ==
    /\ alive[e]
    /\ wire[e] # << >>
    /\ WouldAllocate(e) => Len(stream[e]) < MaxStreams
    /\ PingEcho(e) <= MaxWire
    /\ \E ub \in (IF PingAhead(e) THEN UBChoices ELSE {"zeros"}) :
       \E impl \in (IF PingAhead(e) /\ linked = "unknown" THEN Impls ELSE {"handlers"}) :
       LET r == yamux_session_process(SessionWith(e, ub, impl))
           h == IF r.decoded THEN Addressed(e) ELSE 0
       IN  Commit(e, r.S,
                  [NoLast EXCEPT !.op = "process", !.res = r.res, !.h = h,
                                 !.header = r.header, !.decoded = r.decoded,
                                 !.data = SubSeq(wire[e], YAMUX_HEADER_SIZE + 1,
                                                 Len(wire[e]) - Len(r.S.inb)),
                                 !.pre = IF h # 0 THEN stream[e][h].state ELSE "NONE",
                                 !.prew = IF h # 0 THEN stream[e][h].send_window ELSE 0,
                                 !.prerw = IF h # 0 THEN stream[e][h].recv_window ELSE 0])
    /\ UNCHANGED << app, injected, calls >>

SessionClose(e, err) ==
    /\ Call(e)
    /\ Room(e, YAMUX_HEADER_SIZE * (1 + Cardinality({i \in 1..Len(streams[e]) : streams[e][i] # 0})))
    /\ LET r == yamux_session_close(Session(e), err)
       IN  Commit(e, r.S,
                  [NoLast EXCEPT !.op = "session_close", !.res = r.res, !.arg = err,
                                 !.table = {streams[e][i] : i \in 1..Len(streams[e])} \ {0}])
    /\ UNCHANGED << app, injected >>

\* yamux_stream_open_detailed with the id the caller asks for, 0 for the next
\* id of the session, on a transport that treats the write as io
OpenDetailed(e, stream_id, io) ==
    /\ Call(e)
    /\ Len(stream[e]) < MaxStreams
    /\ Room(e, 16)
    /\ LET r == yamux_stream_open_detailed(SessionIo(e, io), stream_id)
       IN  /\ Commit(e, r.S, [NoLast EXCEPT !.op = "open", !.res = r.res, !.h = r.h,
                                             !.arg = stream_id])
           /\ app' = [app EXCEPT ![e] = IF r.h # 0 THEN @ \cup {r.h} ELSE @]
    /\ UNCHANGED injected

\* yamux_stream_close on a transport that treats the write as io
CloseOn(e, h, reset, io) ==
    /\ Call(e)
    /\ h \in Held(e)
    /\ Room(e, YAMUX_HEADER_SIZE)
    /\ LET r == yamux_stream_close(SessionIo(e, io), h, reset)
       IN  Commit(e, r.S,
                  [NoLast EXCEPT !.op = "close", !.res = r.res, !.h = h, !.reset = reset,
                                 !.pre = stream[e][h].state, !.io = io])
    /\ UNCHANGED << app, injected >>

\* yamux_session_close on a transport that treats every write as io
SessionCloseOn(e, err, io) ==
    /\ Call(e)
    /\ Room(e, YAMUX_HEADER_SIZE * (1 + Cardinality({i \in 1..Len(streams[e]) : streams[e][i] # 0})))
    /\ LET r == yamux_session_close(SessionIo(e, io), err)
       IN  Commit(e, r.S,
                  [NoLast EXCEPT !.op = "session_close", !.res = r.res, !.arg = err, !.io = io,
                                 !.table = {streams[e][i] : i \in 1..Len(streams[e])} \ {0}])
    /\ UNCHANGED << app, injected >>

Ping(e) ==
    /\ Call(e)
    /\ Room(e, YAMUX_HEADER_SIZE)
    /\ \E ub \in UBChoices :
          LET r == yamux_session_ping(SessionWith(e, ub, "handlers"))
          IN  Commit(e, r.S, [NoLast EXCEPT !.op = "ping", !.res = r.res])
    /\ UNCHANGED << app, injected >>

(***************************************************************************)
(* Two sessions of this engine over a reliable ordered transport           *)
(***************************************************************************)
\* application data that reads as a DATA frame for the client's first stream
Crafted == yamux_encode_header(Header(YAMUX_DATA, 0, 1, 1)) \o << 9 >>

Payloads == { << 7, 8 >>, Crafted }

Init ==
    /\ next_stream_id = [e \in Ends |-> IF IsClient(e) THEN 1 ELSE 2]
    /\ go_away_received = [e \in Ends |-> FALSE]
    /\ streams = [e \in Ends |-> << >>]
    /\ accept_queue = [e \in Ends |-> << >>]
    /\ stream = [e \in Ends |-> << >>]
    /\ wire = [e \in Ends |-> << >>]
    /\ app = [e \in Ends |-> {}]
    /\ hist = [e \in Ends |-> << >>]
    /\ config = [e \in Ends |-> yamux_default_config]
    /\ recv_buf_size = [e \in Ends |-> 0]
    /\ alive = [e \in Ends |-> TRUE]
    /\ linked = "unknown"
    /\ injected = 0
    /\ calls = [e \in Ends |-> 0]
    /\ last = NoLast

Next ==
    \E e \in Ends :
        \/ Open(e)
        \/ Accept(e)
        \/ Process(e)
        \/ \E h \in 1..MaxStreams :
              \/ \E reset \in BOOLEAN : Close(e, h, reset)
              \/ \E len \in 1..MaxRead : Read(e, h, len)
              \/ \E data \in Payloads : Room(e, 12 + Len(data)) /\ Write(e, h, data)

Spec == Init /\ [][Next]_vars

(***************************************************************************)
(* One session facing an arbitrary peer: the server reads frames of any    *)
(* type and flag combination.                                              *)
(***************************************************************************)
InjectFrames ==
    { yamux_encode_header(Header(YAMUX_DATA, f, 1, 0)) : f \in 0..15 }
    \cup { yamux_encode_header(Header(YAMUX_DATA, f, 1, 1)) \o << 5 >> : f \in 0..15 }
    \cup { yamux_encode_header(Header(YAMUX_WINDOW_UPDATE, f, 1, 4)) \o BE32(3) : f \in 0..15 }
    \cup { yamux_encode_header(Header(YAMUX_PING, f, 0, 0)) : f \in 0..15 }
    \cup { yamux_encode_header(Header(YAMUX_GO_AWAY, f, 0, 4)) \o BE32(0) : f \in 0..15 }

Inject(e, frame) ==
    /\ injected < MaxInject
    /\ wire[e] = << >>
    /\ injected' = injected + 1
    /\ wire' = [wire EXCEPT ![e] = frame]
    /\ last' = [NoLast EXCEPT !.op = "inject", !.e = e]
    /\ UNCHANGED << next_stream_id, go_away_received, streams, accept_queue, stream, config,
                    recv_buf_size, alive, linked,
                    app, hist, calls >>

NextInject ==
    \/ \E frame \in InjectFrames : Inject("s", frame)
    \/ Process("s")
    \/ Open("s")
    \/ Accept("s")
    \/ \E h \in 1..MaxStreams :
          \/ \E reset \in BOOLEAN : Close("s", h, reset)
          \/ \E len \in 1..MaxRead : Read("s", h, len)
          \/ \E data \in Payloads : Room("s", 12 + Len(data)) /\ Write("s", h, data)

SpecInject == Init /\ [][NextInject]_vars

(***************************************************************************)
(* yamux_stream_write alone, over send windows and lengths on both sides   *)
(* of the 16384-byte frame limit                                           *)
(***************************************************************************)
WriteWindows == {1, 2, 100, 16384, 16385, 20000, 32768, 40000, 65536, 262144}
WriteLens == {1, 2, 100, 16384, 16385, 20000, 32768, 40000, 49152, 65536}

\* the test pattern: byte i is i mod 256
Pattern(len) == [i \in 1..len |-> (i - 1) % 256]

\* the client after a handshake in which the peer advertised window w
InitWrite ==
    /\ next_stream_id = [e \in Ends |-> IF IsClient(e) THEN 3 ELSE 2]
    /\ go_away_received = [e \in Ends |-> FALSE]
    /\ streams = [e \in Ends |-> IF IsClient(e) THEN << 1 >> ELSE << >>]
    /\ accept_queue = [e \in Ends |-> << >>]
    /\ \E w \in WriteWindows :
          /\ stream = [e \in Ends |->
                          IF IsClient(e)
                          THEN << [NewLocalStream(1) EXCEPT !.state = "ESTABLISHED",
                                                            !.send_window = w] >>
                          ELSE << >>]
          /\ hist = [e \in Ends |->
                        IF IsClient(e) THEN << [NewHist EXCEPT !.credit = w] >> ELSE << >>]
    /\ wire = [e \in Ends |-> << >>]
    /\ config = [e \in Ends |-> yamux_default_config]
    /\ recv_buf_size = [e \in Ends |-> 0]
    /\ alive = [e \in Ends |-> TRUE]
    /\ linked = "unknown"
    /\ app = [e \in Ends |-> IF IsClient(e) THEN {1} ELSE {}]
    /\ injected = 0
    /\ calls = [e \in Ends |-> 0]
    /\ last = NoLast

NextWrite == \E len \in WriteLens : Write("c", 1, Pattern(len))

SpecWrite == InitWrite /\ [][NextWrite]_vars

(***************************************************************************)
(* Two sessions whose applications also ping and close the session; the    *)
(* transport may also deliver a GO_AWAY frame as the protocol defines it.  *)
(***************************************************************************)
ErrorCodes == 0..2

WireGoAway == yamux_encode_header(Header(YAMUX_GO_AWAY, 0, 0, 4)) \o BE32(0)

NextSession ==
    \E e \in Ends :
        \/ Open(e)
        \/ Accept(e)
        \/ Process(e)
        \/ Ping(e)
        \/ \E err \in ErrorCodes : SessionClose(e, err)
        \/ Inject(e, WireGoAway)

SpecSession == Init /\ [][NextSession]_vars

(***************************************************************************)
(* A server created with a configuration of its own, facing an arbitrary   *)
(* peer                                                                    *)
(***************************************************************************)
ConfigWindows == {1, 1024, 262144, 524288}

ConfigFrames ==
    { yamux_encode_header(Header(YAMUX_WINDOW_UPDATE, YAMUX_FLAG_SYN, 1, 4)) \o BE32(3),
      yamux_encode_header(Header(YAMUX_WINDOW_UPDATE, 0, 1, 4)) \o BE32(3),
      yamux_encode_header(Header(YAMUX_DATA, 0, 1, 1)) \o << 5 >>,
      yamux_encode_header(Header(YAMUX_DATA, 0, 1, 2)) \o << 5, 6 >> }

\* yamux_session_create with a config argument on the server
InitConfig ==
    /\ next_stream_id = [e \in Ends |-> IF IsClient(e) THEN 1 ELSE 2]
    /\ go_away_received = [e \in Ends |-> FALSE]
    /\ streams = [e \in Ends |-> << >>]
    /\ accept_queue = [e \in Ends |-> << >>]
    /\ stream = [e \in Ends |-> << >>]
    /\ wire = [e \in Ends |-> << >>]
    /\ app = [e \in Ends |-> {}]
    /\ hist = [e \in Ends |-> << >>]
    /\ \E w \in ConfigWindows :
          config = [e \in Ends |->
                       IF IsClient(e) THEN yamux_default_config
                       ELSE [yamux_default_config EXCEPT !.max_stream_window_size = w]]
    /\ recv_buf_size = [e \in Ends |-> 0]
    /\ alive = [e \in Ends |-> TRUE]
    /\ linked = "unknown"
    /\ injected = 0
    /\ calls = [e \in Ends |-> 0]
    /\ last = NoLast

NextConfig ==
    \/ \E frame \in ConfigFrames : Inject("s", frame)
    \/ Process("s")
    \/ Open("s")
    \/ Accept("s")
    \/ \E h \in 1..MaxStreams : \E len \in 1..MaxRead : Read("s", h, len)

SpecConfig == InitConfig /\ [][NextConfig]_vars

(***************************************************************************)
(* Two sessions, the application of one of which opens streams with ids    *)
(* of its choice or the session's next id, over a transport whose writes   *)
(* may fail, and closes them, while its peer opens streams towards it      *)
(***************************************************************************)
\* the SYNs a peer sends
SynIds == {1, 3, 5}

SynFrames ==
    { yamux_encode_header(Header(YAMUX_WINDOW_UPDATE, YAMUX_FLAG_SYN, id, 4)) \o BE32(value) :
          id \in SynIds, value \in {3, 65536} }

OpenIds == {0, 1, 2, U32Max}

NextOpen ==
    \E e \in Ends :
        \/ /\ calls[Peer(e)] = 0
           /\ \E stream_id \in OpenIds : \E io \in {"ok", "fail"} : OpenDetailed(e, stream_id, io)
        \/ /\ calls[Peer(e)] = 0
           /\ \E h \in 1..MaxStreams : \E reset \in BOOLEAN : Close(e, h, reset)
        \/ /\ injected = 0
           /\ \E frame \in SynFrames \cup {WireGoAway} : Inject(e, frame)
        \/ Process(e)

SpecOpen == Init /\ [][NextOpen]_vars

(***************************************************************************)
(* A server, created with a backlog and a window of its own, whose peer     *)
(* opens streams in any order of ids while the application accepts         *)
(***************************************************************************)
AcceptBacklogs == {1, 2, 256}

AcceptWindows == {1024, 262144}

InitAccept ==
    /\ next_stream_id = [e \in Ends |-> IF IsClient(e) THEN 1 ELSE 2]
    /\ go_away_received = [e \in Ends |-> FALSE]
    /\ streams = [e \in Ends |-> << >>]
    /\ accept_queue = [e \in Ends |-> << >>]
    /\ stream = [e \in Ends |-> << >>]
    /\ wire = [e \in Ends |-> << >>]
    /\ app = [e \in Ends |-> {}]
    /\ hist = [e \in Ends |-> << >>]
    /\ \E b \in AcceptBacklogs : \E w \in AcceptWindows :
          config = [e \in Ends |->
                       IF IsClient(e) THEN yamux_default_config
                       ELSE [accept_backlog |-> b, max_stream_window_size |-> w]]
    /\ recv_buf_size = [e \in Ends |-> 0]
    /\ alive = [e \in Ends |-> TRUE]
    /\ linked = "unknown"
    /\ injected = 0
    /\ calls = [e \in Ends |-> 0]
    /\ last = NoLast

NextAccept ==
    \/ \E frame \in SynFrames : Inject("s", frame)
    \/ Process("s")
    \/ Accept("s")

SpecAccept == InitAccept /\ [][NextAccept]_vars

(***************************************************************************)
(* A server whose peer opens a stream advertising a window of 0 or 2 and   *)
(* half-closes it, and whose application accepts, writes and closes        *)
(***************************************************************************)
RefuseFrames ==
    { yamux_encode_header(Header(YAMUX_WINDOW_UPDATE, YAMUX_FLAG_SYN, 1, 4)) \o BE32(value) :
          value \in {0, 2} }
    \cup { yamux_encode_header(Header(YAMUX_DATA, YAMUX_FLAG_FIN, 1, 0)) }

NextRefuse ==
    \/ \E frame \in RefuseFrames : Inject("s", frame)
    \/ Process("s")
    \/ Accept("s")
    \/ Close("s", 1, FALSE)
    \/ \E data \in Payloads : Room("s", 12 + Len(data)) /\ Write("s", 1, data)

SpecRefuse == Init /\ [][NextRefuse]_vars

(***************************************************************************)
(* Two sessions, the application of one of which opens streams and closes  *)
(* them and the session over a transport whose writes may fail or be short *)
(***************************************************************************)
NextClose ==
    \E e \in Ends :
        \/ calls[Peer(e)] = 0 /\ Open(e)
        \/ calls[Peer(e)] = 0 /\ Accept(e)
        \/ /\ calls[Peer(e)] = 0
           /\ \E h \in 1..MaxStreams : \E reset \in BOOLEAN : \E io \in IoOutcomes :
                  CloseOn(e, h, reset, io)
        \/ /\ calls[Peer(e)] = 0
           /\ \E err \in ErrorCodes : \E io \in IoOutcomes : SessionCloseOn(e, err, io)
        \/ /\ injected = 0
           /\ \E frame \in SynFrames : Inject(e, frame)
        \/ Process(e)

SpecClose == Init /\ [][NextClose]_vars

(***************************************************************************)
(* The frame codec on its own: headers with boundary field values are      *)
(* encoded, and buffers of 0 to 13 bytes, or the 12 bytes the last encode  *)
(* produced, are decoded                                                   *)
(***************************************************************************)
CodecFlags == {0, 1, 258, 32768, 65535}

\* 0, 1, 0x01020304, 0x7FFFFFFF, 0x80000000, 0xFFFFFFFF
CodecWords == {0, 1, 16909060, 2147483647, -2147483647 - 1, U32Max}

CodecHeaders ==
    [version : {YAMUX_PROTO_VERSION}, type : YAMUX_DATA..YAMUX_GO_AWAY, flags : CodecFlags,
     stream_id : CodecWords, length : CodecWords]

MaxBuffer == 13

CodecBuffers ==
    { Take(<< v, t, 0, 1, 0, 0, 0, 1, 0, 0, 0, 5, 9 >>, n) :
        v \in {0, 1, 255}, t \in {0, 3, 4, 255}, n \in 0..MaxBuffer }

\* yamux_decode_header(buffer, Len(buffer), &header) on a buffer of exactly
\* Len(buffer) bytes.  Only a length below 8 is refused; once the version and
\* the type have passed, bytes 8..11 are read whether or not the buffer holds
\* them, and a read past its end crashes or yields what lies in memory there.
yamux_decode_header_len(buffer, ub) ==
    IF \/ Len(buffer) >= YAMUX_HEADER_SIZE
       \/ Len(buffer) < 8
       \/ buffer[1] # YAMUX_PROTO_VERSION
       \/ buffer[2] > YAMUX_GO_AWAY
    THEN yamux_decode_header(buffer)
    ELSE IF ub = "crash" THEN [res |-> "CRASH", header |-> NoHeader]
    ELSE yamux_decode_header(
             buffer \o Garbage([ub |-> ub], YAMUX_HEADER_SIZE - Len(buffer)))

InitCodec == Init

Encode(h) ==
    /\ alive["c"]
    /\ last' = [NoLast EXCEPT !.op = "encode", !.header = h, !.out = yamux_encode_header(h)]
    /\ UNCHANGED << next_stream_id, go_away_received, streams, accept_queue, stream, wire,
                    app, hist, config, recv_buf_size, alive, linked, injected, calls >>

Decode(buffer, ub) ==
    /\ alive["c"]
    /\ LET r == yamux_decode_header_len(buffer, ub)
       IN  /\ last' = [NoLast EXCEPT !.op = "decode", !.data = buffer, !.res = r.res,
                                     !.header = r.header, !.decoded = (r.res = "OK")]
           /\ alive' = [alive EXCEPT !["c"] = (r.res # "CRASH")]
    /\ UNCHANGED << next_stream_id, go_away_received, streams, accept_queue, stream, wire,
                    app, hist, config, recv_buf_size, linked, injected, calls >>

NextCodec ==
    \/ \E h \in CodecHeaders : Encode(h)
    \/ \E buffer \in CodecBuffers : \E ub \in UBChoices : Decode(buffer, ub)
    \/ last.op = "encode" /\ Decode(last.out, "zeros")

SpecCodec == InitCodec /\ [][NextCodec]_vars

(***************************************************************************)
(* A server whose peer opens a stream, sends data on it and then sends     *)
(* GO_AWAY, alone or with more frames behind it; the application accepts,  *)
(* reads and closes                                                        *)
(***************************************************************************)
GoAwayFrames ==
    { yamux_encode_header(Header(YAMUX_WINDOW_UPDATE, YAMUX_FLAG_SYN, 1, 4)) \o BE32(3),
      yamux_encode_header(Header(YAMUX_DATA, 0, 1, 2)) \o << 5, 6 >>,
      WireGoAway,
      WireGoAway \o yamux_encode_header(Header(YAMUX_DATA, YAMUX_FLAG_FIN, 1, 1)) \o << 7 >>,
      WireGoAway \o yamux_encode_header(Header(YAMUX_WINDOW_UPDATE, 0, 1, 4)) \o BE32(9),
      WireGoAway \o yamux_encode_header(Header(YAMUX_WINDOW_UPDATE, YAMUX_FLAG_RST, 1, 4))
          \o BE32(0) }

NextGoAway ==
    \/ \E frame \in GoAwayFrames : Inject("s", frame)
    \/ Process("s")
    \/ Accept("s")
    \/ \E h \in 1..MaxStreams :
          \/ \E reset \in BOOLEAN : Close("s", h, reset)
          \/ \E len \in 1..MaxRead : Read("s", h, len)

SpecGoAway == Init /\ [][NextGoAway]_vars

(***************************************************************************)
(* A server whose transport delivers frames cut short: the read callback   *)
(* returns fewer bytes than the header or the payload asked for            *)
(***************************************************************************)
ShortDataFin == yamux_encode_header(Header(YAMUX_DATA, YAMUX_FLAG_FIN, 1, 2)) \o << 5, 6 >>

ShortData == yamux_encode_header(Header(YAMUX_DATA, 0, 1, 2)) \o << 5, 6 >>

ShortSyn == yamux_encode_header(Header(YAMUX_WINDOW_UPDATE, YAMUX_FLAG_SYN, 1, 4)) \o BE32(3)

ShortCredit == yamux_encode_header(Header(YAMUX_WINDOW_UPDATE, 0, 1, 4)) \o BE32(3)

ShortFrames ==
    { ShortSyn, ShortData, ShortDataFin, ShortCredit,
      Take(ShortSyn, 7), Take(ShortSyn, 14), Take(ShortCredit, 15),
      Take(ShortData, 13), Take(ShortDataFin, 13), Take(ShortDataFin, 12) }

NextShort ==
    \/ \E frame \in ShortFrames : Inject("s", frame)
    \/ Process("s")
    \/ Accept("s")

SpecShort == Init /\ [][NextShort]_vars

(***************************************************************************)
(* A byte buffer on its own: the receive buffer of one stream, initialised *)
(* with a size of 1, 2 or 4 and then written, read and compacted in any    *)
(* order.  The bytes written are numbered 1, 2, 3, ...                     *)
(***************************************************************************)
BufferSizes == {1, 2, 4}

MaxBufferOps == 6

MaxBufferBytes == 6

InitBuffer ==
    /\ next_stream_id = [e \in Ends |-> IF IsClient(e) THEN 3 ELSE 2]
    /\ go_away_received = [e \in Ends |-> FALSE]
    /\ streams = [e \in Ends |-> IF IsClient(e) THEN << 1 >> ELSE << >>]
    /\ accept_queue = [e \in Ends |-> << >>]
    /\ \E size \in BufferSizes :
          stream = [e \in Ends |->
                       IF IsClient(e)
                       THEN << [NewLocalStream(1) EXCEPT !.recvbuf = yamux_buffer_init(size)] >>
                       ELSE << >>]
    /\ hist = [e \in Ends |-> IF IsClient(e) THEN << NewHist >> ELSE << >>]
    /\ wire = [e \in Ends |-> << >>]
    /\ app = [e \in Ends |-> IF IsClient(e) THEN {1} ELSE {}]
    /\ config = [e \in Ends |-> yamux_default_config]
    /\ recv_buf_size = [e \in Ends |-> 0]
    /\ alive = [e \in Ends |-> TRUE]
    /\ linked = "unknown"
    /\ injected = 0
    /\ calls = [e \in Ends |-> 0]
    /\ last = NoLast

BufferOp ==
    /\ calls["c"] < MaxBufferOps
    /\ calls' = [calls EXCEPT !["c"] = @ + 1]
    /\ UNCHANGED << next_stream_id, go_away_received, streams, accept_queue, wire, app,
                    config, recv_buf_size, alive, linked, injected >>

\* yamux_buffer_write(&recvbuf, data, len) with the next len bytes
BufferWrite(len) ==
    /\ BufferOp
    /\ Len(hist["c"][1].rcvd) + len <= MaxBufferBytes
    /\ LET bytes == [i \in 1..len |-> Len(hist["c"][1].rcvd) + i]
       IN  /\ stream' = [stream EXCEPT !["c"][1].recvbuf = yamux_buffer_write(@, bytes)]
           /\ hist' = [hist EXCEPT !["c"][1].rcvd = @ \o bytes]
           /\ last' = [NoLast EXCEPT !.op = "buffer_write", !.arg = len, !.data = bytes,
                                     !.res = IF len = 0 THEN "ERR_INVALID" ELSE "OK"]

\* yamux_buffer_read(&recvbuf, data, len, &bytes_read)
BufferRead(len) ==
    /\ BufferOp
    /\ LET r == yamux_buffer_read(stream["c"][1].recvbuf, len)
       IN  /\ stream' = [stream EXCEPT !["c"][1].recvbuf = r.buffer]
           /\ hist' = [hist EXCEPT !["c"][1].got = @ \o r.out]
           /\ last' = [NoLast EXCEPT !.op = "buffer_read", !.arg = len, !.data = r.out,
                                     !.n = Len(r.out),
                                     !.res = IF len = 0 THEN "ERR_INVALID" ELSE "OK"]

\* yamux_buffer_compact(&recvbuf)
BufferCompact ==
    /\ BufferOp
    /\ stream' = [stream EXCEPT !["c"][1].recvbuf = yamux_buffer_compact(@)]
    /\ last' = [NoLast EXCEPT !.op = "buffer_compact"]
    /\ UNCHANGED hist

NextBuffer ==
    \/ \E len \in 0..3 : BufferWrite(len)
    \/ \E len \in 0..3 : BufferRead(len)
    \/ BufferCompact

SpecBuffer == InitBuffer /\ [][NextBuffer]_vars

(***************************************************************************)
(* Flow control between two sessions of this engine.  A default window     *)
(* holds 262144 bytes, so these specifications count the payload bytes     *)
(* instead of storing them: a receive buffer is its three counters, and    *)
(* the wire to an endpoint is the sequence of the frames written to it,    *)
(* each with its header fields, the 32-bit value its payload encodes and   *)
(* the number of payload bytes that follow the header.  Every frame these  *)
(* calls write is read whole by the handler that receives it.  The         *)
(* specifications start where the handshake of the client's first stream   *)
(* has ended: the client opened stream 1, the server processed the SYN and *)
(* its application accepted the stream, the client processed the SYN+ACK.  *)
(***************************************************************************)
\* yamux_buffer_init, the counters alone
FlowBuffer(initial_size) == [used |-> 0, pos |-> 0, size |-> initial_size]

\* yamux_buffer_write of len bytes
FlowBufferWrite(buffer, len) ==
    LET need == buffer.used + len
    IN  [buffer EXCEPT !.used = need,
                       !.size = IF need > buffer.size
                                THEN (IF buffer.size * 2 < need THEN need ELSE buffer.size * 2)
                                ELSE buffer.size]

FlowFrame(type, flags, stream_id, length, value, payload) ==
    [type |-> type, flags |-> flags, stream_id |-> stream_id, length |-> length,
     value |-> value, payload |-> payload]

\* [res, st, n, out]: yamux_stream_write of len bytes on the stream st
FlowStreamWrite(st, len) ==
    LET chunks == WriteChunks(len, st.send_window)
        n == SumSeq(chunks)
    IN  IF WriteRefused(st.state) THEN [res |-> "ERR_CLOSED", st |-> st, n |-> 0, out |-> << >>]
        ELSE IF len = 0 THEN [res |-> "OK", st |-> st, n |-> 0, out |-> << >>]
        ELSE IF st.send_window = 0
            THEN [res |-> "ERR_WOULD_BLOCK", st |-> st, n |-> 0, out |-> << >>]
        ELSE [res |-> "OK", st |-> [st EXCEPT !.send_window = @ - n], n |-> n,
              out |-> [i \in 1..Len(chunks) |->
                          FlowFrame(YAMUX_DATA, 0, st.id, chunks[i], 0, chunks[i])]]

\* [res, st, n, out]: yamux_stream_read of up to len bytes from the stream st
FlowStreamRead(st, len) ==
    IF st.state = "CLOSED" THEN [res |-> "ERR_CLOSED", st |-> st, n |-> 0, out |-> << >>]
    ELSE
    LET available == st.recvbuf.used - st.recvbuf.pos
        n == IF len > available THEN available ELSE len
        pos == st.recvbuf.pos + n
    IN  [res |-> "OK",
         st |-> [st EXCEPT !.recvbuf =
                     IF pos > 0 /\ pos = @.used
                     THEN [used |-> 0, pos |-> 0, size |-> @.size]
                     ELSE [@ EXCEPT !.pos = pos]],
         n |-> n,
         out |-> IF n > 0
                 THEN << FlowFrame(YAMUX_WINDOW_UPDATE, 0, st.id, 4,
                                   ReadWindowIncrement(st.recv_window, n), 4) >>
                 ELSE << >>]

\* [res, st, out, consumed]: yamux_handle_data for a frame of a stream st in
\* the table; consumed is the number of payload bytes read.  The window
\* update it sends has the default window stored over its length field and no
\* payload.
FlowHandleData(st, frame) ==
    IF st.state \in {"CLOSED", "FIN_RECV"}
    THEN [res |-> "ERR_CLOSED", st |-> st, out |-> << >>, consumed |-> 0]
    ELSE
    LET st1 == [st EXCEPT !.state = DataFlagState(frame.flags, @)]
        window == st.recv_window - frame.length
    IN  IF frame.length = 0 THEN [res |-> "OK", st |-> st1, out |-> << >>, consumed |-> 0]
        ELSE IF frame.payload < frame.length
            THEN [res |-> "ERR_IO", st |-> st1, out |-> << >>, consumed |-> frame.payload]
        ELSE IF U32Less(window, YAMUX_WINDOW_UPDATE_THRESHOLD)
            THEN [res |-> "OK",
                  st |-> [st1 EXCEPT !.recvbuf = FlowBufferWrite(@, frame.length),
                                     !.recv_window = YAMUX_DEFAULT_WINDOW_SIZE],
                  out |-> << FlowFrame(YAMUX_WINDOW_UPDATE, 0, st.id,
                                       YAMUX_DEFAULT_WINDOW_SIZE, 0, 0) >>,
                  consumed |-> frame.length]
        ELSE [res |-> "OK",
              st |-> [st1 EXCEPT !.recvbuf = FlowBufferWrite(@, frame.length),
                                 !.recv_window = window],
              out |-> << >>, consumed |-> frame.length]

\* [res, st, out, consumed]: yamux_handle_window_update for a frame without
\* flags of a stream st in the table
FlowHandleWindowUpdate(st, frame) ==
    IF frame.length # 4
    THEN [res |-> "ERR_PROTOCOL", st |-> st, out |-> << >>, consumed |-> 0]
    ELSE IF frame.payload < 4
        THEN [res |-> "ERR_IO", st |-> st, out |-> << >>, consumed |-> frame.payload]
    ELSE [res |-> "OK", st |-> [st EXCEPT !.send_window = @ + frame.value],
          out |-> << >>, consumed |-> 4]

\* the state after that handshake with a server whose max_stream_window_size is w
Handshaken(w) ==
    /\ next_stream_id = [e \in Ends |-> IF IsClient(e) THEN 3 ELSE 2]
    /\ go_away_received = [e \in Ends |-> FALSE]
    /\ streams = [e \in Ends |-> << 1 >>]
    /\ accept_queue = [e \in Ends |-> << >>]
    /\ config = [e \in Ends |->
                    IF IsClient(e) THEN yamux_default_config
                    ELSE [yamux_default_config EXCEPT !.max_stream_window_size = w]]
    /\ stream = [e \in Ends |->
                    IF IsClient(e)
                    THEN << [NewLocalStream(1)
                                EXCEPT !.state = "ESTABLISHED", !.send_window = w,
                                       !.recvbuf = FlowBuffer(YAMUX_INITIAL_BUFFER_SIZE)] >>
                    ELSE << [NewServerStream(config[e], 1, YAMUX_DEFAULT_WINDOW_SIZE)
                                EXCEPT !.state = "ESTABLISHED",
                                       !.recvbuf = FlowBuffer(YAMUX_INITIAL_BUFFER_SIZE)] >>]
    /\ hist = [e \in Ends |-> << NewHist >>]
    /\ wire = [e \in Ends |-> << >>]
    /\ app = [e \in Ends |-> {1}]
    /\ recv_buf_size = [e \in Ends |-> 0]
    /\ alive = [e \in Ends |-> TRUE]
    /\ linked = "unknown"
    /\ injected = 0
    /\ calls = [e \in Ends |-> 1]
    /\ last = NoLast

\* what a flow call changes: the stream, the frames it wrote, the call record
FlowCommit(e, h, r, l) ==
    /\ stream' = [stream EXCEPT ![e][h] = r.st]
    /\ last' = [l EXCEPT !.e = e, !.h = h, !.res = r.res, !.out = r.out,
                         !.pre = stream[e][h].state,
                         !.prew = stream[e][h].send_window,
                         !.prerw = stream[e][h].recv_window]
    /\ UNCHANGED << next_stream_id, go_away_received, streams, accept_queue, config,
                    app, alive, linked, injected >>

MaxFlowWrites == 3
MaxFlowReads == 1

\* yamux_stream_write of len bytes
FlowWrite(e, h, len) ==
    /\ alive[e]
    /\ h \in Held(e)
    /\ hist[e][h].writes < MaxFlowWrites
    /\ LET r == FlowStreamWrite(stream[e][h], len)
       IN  /\ FlowCommit(e, h, r, [NoLast EXCEPT !.op = "write", !.arg = len, !.n = r.n])
           /\ wire' = [wire EXCEPT ![Peer(e)] = @ \o r.out]
    /\ hist' = [hist EXCEPT ![e][h].writes = @ + 1]
    /\ UNCHANGED << recv_buf_size, calls >>

\* yamux_stream_read of up to len bytes
FlowRead(e, h, len) ==
    /\ alive[e]
    /\ h \in Held(e)
    /\ LET r == FlowStreamRead(stream[e][h], len)
       IN  /\ FlowCommit(e, h, r, [NoLast EXCEPT !.op = "read", !.arg = len, !.n = r.n])
           /\ wire' = [wire EXCEPT ![Peer(e)] = @ \o r.out]
    /\ UNCHANGED << recv_buf_size, hist >>

\* yamux_session_process of the next frame, a DATA or WINDOW_UPDATE frame
\* without flags
FlowProcess(e) ==
    /\ alive[e]
    /\ ~go_away_received[e]
    /\ wire[e] # << >>
    /\ LET frame == Head(wire[e])
           h == yamux_get_stream(Session(e), frame.stream_id)
           r == IF frame.type = YAMUX_DATA THEN FlowHandleData(stream[e][h], frame)
                ELSE FlowHandleWindowUpdate(stream[e][h], frame)
       IN  /\ frame.type \in {YAMUX_DATA, YAMUX_WINDOW_UPDATE}
           /\ h # 0
           /\ FlowCommit(e, h, r, [NoLast EXCEPT !.op = "process", !.decoded = TRUE,
                                                 !.header = Header(frame.type, frame.flags,
                                                                   frame.stream_id, frame.length),
                                                 !.consumed = YAMUX_HEADER_SIZE + r.consumed])
           /\ wire' = [wire EXCEPT ![e] = Tail(@), ![Peer(e)] = @ \o r.out]
           /\ recv_buf_size' =
                  [recv_buf_size EXCEPT ![e] =
                      IF frame.type = YAMUX_DATA /\ ~(stream[e][h].state \in {"CLOSED", "FIN_RECV"})
                         /\ frame.length > @
                      THEN frame.length ELSE @]
    /\ UNCHANGED << hist, calls >>

\* Both sessions with the default configuration.  The client writes a
\* window's worth of bytes at a time, the server processes and reads: one
\* byte, once, at any moment, and everything buffered whenever it has
\* processed all the frames delivered.
InitFlow == Handshaken(YAMUX_DEFAULT_WINDOW_SIZE)

NextFlow ==
    \/ FlowWrite("c", 1, YAMUX_DEFAULT_WINDOW_SIZE)
    \/ FlowProcess("s")
    \/ /\ calls["s"] <= MaxFlowReads
       /\ FlowRead("s", 1, 1)
       /\ calls' = [calls EXCEPT !["s"] = @ + 1]
    \/ /\ wire["s"] = << >>
       /\ FlowRead("s", 1, YAMUX_DEFAULT_WINDOW_SIZE)
       /\ UNCHANGED calls
    \/ FlowProcess("c")

SpecFlow == InitFlow /\ [][NextFlow]_vars

\* The same calls after a handshake with a server of any configured window,
\* where each endpoint goes on processing the frames delivered to it and the
\* server's application goes on reading what has been processed.
LiveWindows == {0, 1, YAMUX_MAX_DATA_FRAME_SIZE}

InitLive == \E w \in LiveWindows : Handshaken(w)

SpecLive ==
    /\ InitLive
    /\ [][NextFlow]_vars
    /\ WF_vars(FlowProcess("c"))
    /\ WF_vars(FlowProcess("s"))
    /\ WF_vars(wire["s"] = << >> /\ FlowRead("s", 1, YAMUX_DEFAULT_WINDOW_SIZE)
                   /\ UNCHANGED calls)

(***************************************************************************)
(* Properties                                                              *)
(***************************************************************************)
\* the received bytes of a counted buffer that the application has not read
FlowUnread(buffer) == buffer.used - buffer.pos

IsPrefix(p, q) == Len(p) <= Len(q) /\ SubSeq(q, 1, Len(p)) = p

\* what endpoint e's application has had accepted by writes on the stream with this id
WrittenOn(e, id) ==
    LET hs == {h \in 1..Len(stream[e]) : stream[e][h].id = id}
    IN  IF hs = {} THEN << >> ELSE hist[e][CHOOSE h \in hs : \A k \in hs : h <= k].wrote

\* payload lengths of a run of flag-less DATA frames; -1 stands for anything else
RECURSIVE FrameLens(_)
FrameLens(bytes) ==
    IF bytes = << >> THEN << >>
    ELSE IF Len(bytes) < YAMUX_HEADER_SIZE THEN << -1 >>
    ELSE LET d == yamux_decode_header(Take(bytes, YAMUX_HEADER_SIZE))
         IN  IF d.res # "OK" \/ d.header.type # YAMUX_DATA \/ d.header.flags # 0
                  \/ Len(bytes) < YAMUX_HEADER_SIZE + d.header.length
             THEN << -1 >>
             ELSE << d.header.length >>
                      \o FrameLens(Drop(bytes, YAMUX_HEADER_SIZE + d.header.length))

\* the last call was process and it decoded a header of this type
Processed(type) == last.op = "process" /\ last.decoded /\ last.header.type = type

\* C1: once a stream's state is CLOSED, no operation and no inbound frame, whatever
\* its type and flags, changes it to any other state.
C1_ClosedIsAbsorbing ==
    [][\A e \in Ends : \A h \in 1..Len(stream[e]) :
          stream[e][h].state = "CLOSED" => stream'[e][h].state = "CLOSED"]_vars

\* C2: between two endpoints of this engine, at every moment the bytes the
\* receiver's reads have returned on a stream are a prefix of the bytes the
\* sender's writes on the stream with the same id have accepted.
C2_ReadsArePrefixOfWrites ==
    \A e \in Ends : \A h \in 1..Len(stream[e]) :
        IsPrefix(hist[e][h].got, WrittenOn(Peer(e), stream[e][h].id))

\* C3: a process call that decodes a header consumes exactly that frame, the
\* 12-byte header and the payload bytes its length field announces, whatever
\* result it returns.
C3_ProcessConsumesOneFrame ==
    (last.op = "process" /\ last.decoded)
        => last.consumed = YAMUX_HEADER_SIZE + last.header.length

\* C4: on every stream the DATA payload bytes sent so far never exceed the credit
\* granted so far: the window value of the peer's SYN or SYN+ACK plus the
\* increments of the window updates received.
C4_SentWithinCredit ==
    \A e \in Ends : \A h \in 1..Len(stream[e]) :
        Len(hist[e][h].wrote) <= hist[e][h].credit

\* C5: a write of L > 0 bytes on a stream that may send, with send window
\* W > 0, returns success with min(L, W) bytes written, emits flag-less DATA
\* frames with payloads of 1..16384 bytes summing to min(L, W), and leaves the
\* send window at W - min(L, W).
C5_WriteSendsMin ==
    (last.op = "write" /\ ~WriteRefused(last.pre) /\ last.arg > 0 /\ last.prew > 0)
        => LET m == Min(last.arg, last.prew)
               lens == FrameLens(last.out)
           IN  /\ last.res = "OK"
               /\ last.n = m
               /\ \A i \in 1..Len(lens) : lens[i] \in 1..YAMUX_MAX_DATA_FRAME_SIZE
               /\ SumSeq(lens) = m
               /\ stream[last.e][last.h].send_window = last.prew - m

\* C6: open on a client returns the stream in SYN_SENT and emits a WINDOW_UPDATE
\* frame with SYN, length 4 and the stream's initial receive window as payload;
\* when the client then processes the server's SYN+ACK for that stream, the
\* call succeeds, the stream is ESTABLISHED and its send window is the value
\* the SYN+ACK carried.
C6_OpenHandshake ==
    /\ (last.op = "open" /\ IsClient(last.e) /\ last.res = "OK")
          => /\ last.h # 0
             /\ stream[last.e][last.h].state = "SYN_SENT"
             /\ last.out = yamux_encode_header(
                               Header(YAMUX_WINDOW_UPDATE, YAMUX_FLAG_SYN,
                                      stream[last.e][last.h].id, 4))
                           \o BE32(stream[last.e][last.h].recv_window)
    /\ (/\ Processed(YAMUX_WINDOW_UPDATE)
        /\ IsClient(last.e)
        /\ last.header.flags = YAMUX_FLAG_SYN + YAMUX_FLAG_ACK
        /\ last.h # 0
        /\ last.pre = "SYN_SENT"
        /\ Len(last.data) = 4)
          => /\ last.res = "OK"
             /\ stream[last.e][last.h].state = "ESTABLISHED"
             /\ stream[last.e][last.h].send_window = FromBE32(last.data)

\* the client has processed the server's SYN+ACK for a stream it opened
C6_Witness ==
    /\ Processed(YAMUX_WINDOW_UPDATE)
    /\ last.e = "c"
    /\ last.header.flags = YAMUX_FLAG_SYN + YAMUX_FLAG_ACK
    /\ last.pre = "SYN_SENT"
    /\ last.h # 0
    /\ stream["c"][last.h].state = "ESTABLISHED"
    /\ stream["c"][last.h].send_window = max_stream_window_size
    /\ \E k \in 1..Len(stream["s"]) : stream["s"][k].id = stream["c"][last.h].id

\* C7: close with reset=false on an ESTABLISHED stream emits one FIN frame and
\* leaves the stream in FIN_SENT, from where it becomes CLOSED only by a later
\* call; the same close on a FIN_RECV stream emits one FIN frame and leaves
\* the stream CLOSED.
C7_GracefulClose ==
    [][/\ (last'.op = "close" /\ ~last'.reset /\ last'.pre = "ESTABLISHED")
             => /\ stream'[last'.e][last'.h].state = "FIN_SENT"
                /\ last'.out = CloseFrame(stream'[last'.e][last'.h].id, FALSE)
       /\ (last'.op = "close" /\ ~last'.reset /\ last'.pre = "FIN_RECV")
             => /\ stream'[last'.e][last'.h].state = "CLOSED"
                /\ last'.out = CloseFrame(stream'[last'.e][last'.h].id, FALSE)
       /\ \A e \in Ends : \A h \in 1..Len(stream[e]) :
             (stream[e][h].state = "FIN_SENT" /\ stream'[e][h].state = "CLOSED")
                 => (last'.e = e /\ last'.h = h /\ last'.op \in {"process", "close"})]_vars

\* C8: processing a DATA or WINDOW_UPDATE frame that carries RST for a stream
\* in a state other than CLOSED leaves that stream CLOSED.
C8_RstCloses ==
    (/\ Processed(YAMUX_DATA) \/ Processed(YAMUX_WINDOW_UPDATE)
     /\ HasFlag(last.header.flags, YAMUX_FLAG_RST)
     /\ last.h # 0
     /\ last.pre # "CLOSED")
        => stream[last.e][last.h].state = "CLOSED"

\* C9: processing the peer's FIN for an ESTABLISHED stream leaves it FIN_RECV;
\* from then on, while the stream is not closed locally, the bytes reads
\* have returned followed by the bytes still buffered are the bytes received,
\* and each read succeeds, returning as many bytes as asked for or draining
\* the buffer, so that a read on a drained buffer returns success with 0 bytes.
C9_FinThenEof ==
    /\ (/\ Processed(YAMUX_DATA)
        /\ HasFlag(last.header.flags, YAMUX_FLAG_FIN)
        /\ last.h # 0
        /\ last.pre = "ESTABLISHED")
          => stream[last.e][last.h].state = "FIN_RECV"
    /\ \A e \in Ends : \A h \in 1..Len(stream[e]) :
          (hist[e][h].fin_seen /\ stream[e][h].state # "CLOSED")
              => hist[e][h].got \o Unread(stream[e][h].recvbuf) = hist[e][h].rcvd
    /\ (last.op = "read" /\ hist[last.e][last.h].fin_seen /\ last.pre # "CLOSED")
          => /\ last.res = "OK"
             /\ last.n <= last.arg
             /\ last.n = last.arg \/ Unread(stream[last.e][last.h].recvbuf) = << >>

\* a read on a FIN_RECV stream whose bytes have all been read returns 0 bytes
C9_Witness ==
    /\ last.op = "read"
    /\ last.pre = "FIN_RECV"
    /\ last.res = "OK"
    /\ last.n = 0
    /\ hist[last.e][last.h].rcvd = << 7, 8 >>
    /\ hist[last.e][last.h].got = << 7, 8 >>

\* C10: after A closes an established stream with reset=false and B, having
\* processed A's FIN, closes its side with reset=false, A's process of B's FIN
\* returns success and A's stream is CLOSED.
C10_GracefulBothSides ==
    \A h \in 1..Len(stream[last.e]) :
        (/\ Processed(YAMUX_DATA)
         /\ last.header.flags = YAMUX_FLAG_FIN
         /\ stream[last.e][h].id = last.header.stream_id
         /\ hist[last.e][h].fin_close
         /\ \E k \in 1..Len(stream[Peer(last.e)]) :
               /\ stream[Peer(last.e)][k].id = last.header.stream_id
               /\ hist[Peer(last.e)][k].fin_reply)
            => (last.res = "OK" /\ stream[last.e][h].state = "CLOSED")

\* C11: a read that returns n > 0 bytes emits exactly one flag-less WINDOW_UPDATE
\* frame for the stream with payload n, so the increments reads have emitted on
\* a stream add up to the bytes the application has consumed from it.
C11_ReadGrantsWhatItReturns ==
    /\ (last.op = "read" /\ last.n > 0)
          => last.out = yamux_encode_header(
                            Header(YAMUX_WINDOW_UPDATE, 0, stream[last.e][last.h].id, 4))
                        \o BE32(last.n)
    /\ \A e \in Ends : \A h \in 1..Len(stream[e]) :
          hist[e][h].granted = Len(hist[e][h].got)

\* C12: when processing a DATA frame leaves the stream's recv_window below half
\* of the session's configured max_stream_window_size, process emits a
\* WINDOW_UPDATE frame whose 4-byte payload is max_stream_window_size minus the
\* reduced recv_window and sets recv_window to max_stream_window_size; when
\* recv_window stays at or above half, process emits no frame.
C12_WindowUpdateBelowHalf ==
    (/\ Processed(YAMUX_DATA)
     /\ last.res = "OK"
     /\ last.h # 0
     /\ last.header.length > 0
     /\ Len(last.data) = last.header.length)
        => LET maxw == config[last.e].max_stream_window_size
               reduced == last.prerw - last.header.length
           IN  IF U32Less(reduced, maxw \div 2)
               THEN /\ last.out = yamux_encode_header(
                                      Header(YAMUX_WINDOW_UPDATE, 0, last.header.stream_id, 4))
                                  \o BE32(maxw - reduced)
                    /\ stream[last.e][last.h].recv_window = maxw
               ELSE /\ last.out = << >>
                    /\ stream[last.e][last.h].recv_window = reduced

\* C13: with the default configuration, once a client has written on an
\* established stream, the server has processed every DATA frame and read its
\* receive buffer empty, and the client has processed every frame the server
\* emitted, the client's send_window for the stream is 262144.
C13_SendWindowRestored ==
    \A h \in 1..Len(stream["c"]) : \A k \in 1..Len(stream["s"]) :
        (/\ config["s"] = yamux_default_config
         /\ stream["c"][h].id = stream["s"][k].id
         /\ stream["c"][h].state = "ESTABLISHED"
         /\ hist["c"][h].wrote # << >>
         /\ ~hist["c"][h].early
         /\ hist["s"][k].rcvd = hist["c"][h].wrote
         /\ hist["s"][k].got = hist["s"][k].rcvd
         /\ wire["c"] = << >>
         /\ wire["s"] = << >>)
            => stream["c"][h].send_window = YAMUX_DEFAULT_WINDOW_SIZE

\* C14: in every reachable state, for any session configuration and any
\* inbound frames, every stream's recv_window is at most the session's
\* configured max_stream_window_size.
C14_RecvWindowWithinMax ==
    \A e \in Ends : \A h \in 1..Len(stream[e]) :
        /\ stream[e][h].recv_window >= 0
        /\ stream[e][h].recv_window <= config[e].max_stream_window_size

\* C15: a stream's send_window is 0 until the peer's window advertisement for it
\* has been processed; a locally opened stream still in SYN_SENT has
\* send_window 0.
C15_NoSendWindowBeforeAdvertisement ==
    \A e \in Ends : \A h \in 1..Len(stream[e]) :
        stream[e][h].state = "SYN_SENT" => stream[e][h].send_window = 0

\* the bytes are a concatenation of frames: a 12-byte header with version 0 and type
\* 0..3, then the payload of its type
RECURSIVE WellFormedFrames(_)
WellFormedFrames(bytes) ==
    IF bytes = << >> THEN TRUE
    ELSE IF Len(bytes) < YAMUX_HEADER_SIZE THEN FALSE
    ELSE LET version == bytes[1]
             type == bytes[2]
             length == FromBE32(SubSeq(bytes, 9, 12))
             fixed == type \in {YAMUX_WINDOW_UPDATE, YAMUX_GO_AWAY}
         IN  /\ version = YAMUX_PROTO_VERSION
             /\ type \in {YAMUX_DATA, YAMUX_WINDOW_UPDATE, YAMUX_PING, YAMUX_GO_AWAY}
             /\ fixed => length = 4
             /\ length >= 0
             /\ Len(bytes) >= YAMUX_HEADER_SIZE + length
             /\ WellFormedFrames(Drop(bytes, YAMUX_HEADER_SIZE + length))

\* C16: what a call writes to the transport is a concatenation of well-formed frames:
\* a 12-byte header with version 0 and type 0..3 followed by exactly the payload of
\* its type (DATA: length bytes; WINDOW_UPDATE and GO_AWAY: length 4 and 4 bytes;
\* PING: nothing when length is 0).
C16_WritesWellFormedFrames == WellFormedFrames(last.out)

\* the last call was `op` by an endpoint whose peer now has exactly what that call
\* wrote waiting on its transport, and the next step is the peer's process
PeerProcessesWhatWasSent(op) ==
    /\ last.op = op
    /\ last.res = "OK"
    /\ last.out # << >>
    /\ wire[Peer(last.e)] = last.out
    /\ ~go_away_received[Peer(last.e)]
    /\ last'.op = "process"
    /\ last'.e = Peer(last.e)

\* C17: when an endpoint closes its session with reason 0, 1 or 2 and the peer then
\* processes the frame the close emitted, the peer's process returns success and the
\* peer's go_away_received is true (so that, by C18, every later open on the peer
\* fails with closed).
C17_PeerAcceptsGoAway ==
    [][PeerProcessesWhatWasSent("session_close") /\ last.arg \in ErrorCodes
          => /\ last'.res = "OK"
             /\ go_away_received'[last'.e]
             /\ yamux_stream_open_detailed(
                    [Session(last'.e) EXCEPT !.go_away_received = go_away_received'[last'.e]],
                    0).res = "ERR_CLOSED"]_vars

\* C18: go_away_received, once set by an inbound GO_AWAY or by a local session
\* close, stays set, and every later open on that session fails with closed, creates
\* no stream, emits no frame and leaves next_stream_id as it was.
C18_GoAwayIsFinal ==
    [][/\ \A e \in Ends : go_away_received[e] => go_away_received'[e]
       /\ \A e \in Ends :
             (go_away_received[e] /\ last'.op = "open" /\ last'.e = e
                  /\ calls'[e] = calls[e] + 1)
             => /\ last'.res = "ERR_CLOSED"
                /\ last'.h = 0
                /\ stream'[e] = stream[e]
                /\ streams'[e] = streams[e]
                /\ app'[e] = app[e]
                /\ last'.out = << >>
                /\ wire' = wire
                /\ next_stream_id'[e] = next_stream_id[e]]_vars

\* an open has failed with closed on a session whose only other step was to process
\* a GO_AWAY from the transport
C18_Witness ==
    /\ last.op = "open"
    /\ last.res = "ERR_CLOSED"
    /\ go_away_received[last.e]
    /\ calls[last.e] = 1
    /\ injected = 1
    /\ wire[last.e] = << >>

C20_PingRoundTrip ==
    [][/\ PeerProcessesWhatWasSent("ping")
          => /\ last'.res = "OK"
             /\ last'.out = yamux_encode_header(Header(YAMUX_PING, YAMUX_FLAG_ACK, 0, 0))
       /\ (/\ last.op = "process"
           /\ last.out = yamux_encode_header(Header(YAMUX_PING, YAMUX_FLAG_ACK, 0, 0))
           /\ wire[Peer(last.e)] = last.out
           /\ ~go_away_received[Peer(last.e)]
           /\ last'.op = "process"
           /\ last'.e = Peer(last.e))
          => last'.res = "OK"]_vars

\* C21: successive successful accepts return the streams in the order in which the
\* server processed their SYNs, each stream once: an accept returns the oldest
\* stream the application has not been given yet.
C21_AcceptIsFifo ==
    [][\A e \in Ends :
          (last'.op = "accept" /\ last'.e = e /\ last'.res = "OK" /\ calls'[e] = calls[e] + 1)
          => /\ last'.h \in 1..Len(stream[e])
             /\ last'.h \notin app[e]
             /\ \A k \in 1..Len(stream[e]) : k \notin app[e] => last'.h <= k]_vars

\* the SYN for the higher id was processed first, both streams have been accepted, the
\* one with the lower id last
C21_Witness ==
    /\ last.op = "accept"
    /\ last.res = "OK"
    /\ last.h = 2
    /\ app[last.e] = {1, 2}
    /\ stream[last.e][1].id > stream[last.e][2].id

\* C22: a session's accept queue never holds more streams than the configured
\* accept_backlog; a SYN for a new stream id processed while the queue holds
\* accept_backlog streams is answered with a frame carrying RST for that stream id
\* and leaves the queue as it was.
C22_AcceptQueueWithinBacklog ==
    [][\A e \in Ends :
          /\ Len(accept_queue'[e]) <= config[e].accept_backlog
          /\ (/\ WouldAllocate(e)
              /\ Addressed(e) = 0
              /\ Len(accept_queue[e]) >= config[e].accept_backlog
              /\ last'.op = "process" /\ last'.e = e /\ wire'[e] # wire[e])
             => /\ accept_queue'[e] = accept_queue[e]
                /\ Len(last'.out) = YAMUX_HEADER_SIZE
                /\ LET d == yamux_decode_header(last'.out)
                   IN  /\ d.res = "OK"
                       /\ HasFlag(d.header.flags, YAMUX_FLAG_RST)
                       /\ d.header.stream_id = last'.header.stream_id]_vars

C24_OpenedIdParity ==
    (last.op = "open" /\ last.res = "OK")
    => stream[last.e][last.h].id % 2 = (IF IsClient(last.e) THEN 1 ELSE 0)

\* C25: the ids of the streams that successive successful opens with the session's
\* next id return start at 1 on a client and at 2 on a server, and each is the
\* previous one plus 2, whatever opens failed in between.
C25_AutoIdsStepByTwo ==
    (last.op = "open" /\ last.arg = 0 /\ last.res = "OK")
    => LET e == last.e
           earlier == {k \in 1..(last.h - 1) : hist[e][k].auto}
           latest == CHOOSE k \in earlier : \A j \in earlier : j <= k
       IN  stream[e][last.h].id =
               IF earlier = {} THEN (IF IsClient(e) THEN 1 ELSE 2)
               ELSE stream[e][latest].id + 2

\* the ids of the streams in endpoint e's table
TableIds(e) == {stream[e][streams[e][i]].id : i \in {j \in 1..Len(streams[e]) : streams[e][j] # 0}}

\* no two entries of endpoint e's table have the same id
TableUnique(e) ==
    \A i, j \in 1..Len(streams[e]) :
        (i # j /\ streams[e][i] # 0 /\ streams[e][j] # 0)
        => stream[e][streams[e][i]].id # stream[e][streams[e][j]].id

\* yamux_add_stream called at endpoint e with a new stream that has this id
AddWithId(e, id) ==
    LET S == Session(e)
    IN  yamux_add_stream([S EXCEPT !.stream = Append(@, NewLocalStream(id)),
                                   !.hist = Append(@, NewHist)],
                         Len(S.stream) + 1)

ProbeIds == 1..6

\* removing an id that is not in the table returns invalid and changes nothing
RemoveAbsentIsInvalid(e) ==
    \A id \in ProbeIds \ TableIds(e) :
        yamux_remove_stream(Session(e), id) = [res |-> "ERR_INVALID", S |-> Session(e)]

C27_RejectedWriteHasNoEffect ==
    LET refused == last.pre \in {"CLOSED", "FIN_SENT", "FIN_RECV"}
        blocked == ~refused /\ last.prew = 0 /\ last.arg > 0
    IN  (last.op = "write" /\ (refused \/ blocked))
        => /\ last.res = (IF refused THEN "ERR_CLOSED" ELSE "ERR_WOULD_BLOCK")
           /\ last.n = 0
           /\ last.out = << >>
           /\ stream[last.e][last.h].state = last.pre
           /\ stream[last.e][last.h].send_window = last.prew

\* a write on an established stream whose peer advertised a window of 0 has been
\* turned away with would-block
C27_Witness ==
    /\ last.op = "write"
    /\ last.res = "ERR_WOULD_BLOCK"
    /\ last.pre = "ESTABLISHED"
    /\ last.prew = 0
    /\ last.arg > 0

\* C28: whatever the transport does with the writes (takes them, takes part, fails),
\* a stream close on a stream that is not CLOSED returns success and moves the stream
\* to another state, and a session close returns success and leaves the session shut
\* down.
C28_CloseIsBestEffort ==
    /\ (last.op = "close" /\ last.pre # "CLOSED")
       => /\ last.res = "OK"
          /\ stream[last.e][last.h].state # last.pre
    /\ last.op = "session_close"
       => /\ last.res = "OK"
          /\ go_away_received[last.e]

\* a session with a stream in its table has been closed over a transport that took
\* half of each frame
C28_Witness ==
    /\ last.op = "session_close"
    /\ last.io = "short"
    /\ last.res = "OK"
    /\ last.table # {}
    /\ Len(last.out) = YAMUX_HEADER_SIZE
    /\ \A h \in last.table : stream[last.e][h].state = "CLOSED"

\* byte k of a 32-bit value, k = 0 being the least significant
ByteOf(x, k) ==
    LET low == IF x >= 0 THEN x ELSE (x + 2147483647) + 1
        b   == (low \div (2 ^ (8 * k))) % 256
    IN  IF k = 3 /\ x < 0 THEN b + 128 ELSE b

\* C29: for every header H with version 0, type in 0..3 and any flags, stream_id
\* and length, encode(H) is 12 bytes holding the version, the type, and then
\* flags, stream_id and length most-significant byte first, and decoding those
\* 12 bytes succeeds and yields exactly H.
C29_CodecRoundTrip ==
    [][/\ (last'.op = "encode") =>
              /\ Len(last'.out) = 12
              /\ last'.out[1] = last'.header.version
              /\ last'.out[2] = last'.header.type
              /\ last'.out[3] * 256 + last'.out[4] = last'.header.flags
              /\ \A k \in 0..3 :
                     /\ last'.out[8 - k] = ByteOf(last'.header.stream_id, k)
                     /\ last'.out[12 - k] = ByteOf(last'.header.length, k)
       /\ (last.op = "encode" /\ last'.op = "decode" /\ last'.data = last.out) =>
              /\ last'.res = "OK"
              /\ last'.header = last.header]_vars

\* a header whose fields have every bit set comes back from its twelve bytes
C29_Witness ==
    /\ last.op = "decode"
    /\ last.data = << 0, 3, 255, 255, 255, 255, 255, 255, 128, 0, 0, 0 >>
    /\ last.res = "OK"
    /\ last.header.stream_id = U32Max
    /\ last.header.flags = 65535

\* C30: decode returns invalid for every input of fewer than 12 bytes, and for
\* an input of at least 12 bytes returns protocol whenever the version byte is
\* not 0 or the type byte is greater than 3.
C30_DecodeRejects ==
    last.op = "decode" =>
        /\ (Len(last.data) < 12) => (last.res = "ERR_INVALID")
        /\ (/\ Len(last.data) >= 12
            /\ (last.data[1] # 0 \/ last.data[2] > 3)) => last.res = "ERR_PROTOCOL"

\* C31: once an endpoint has processed an inbound GO_AWAY, every later process
\* call returns closed, reads nothing, writes nothing and leaves every stream's
\* state, windows and receive buffer as they were; a read on a stream that is
\* not CLOSED still returns OK with the next buffered bytes in order, and a
\* close of such a stream still returns OK and writes its FIN or RST frame.
C31_AfterGoAway ==
    [][\A e \in Ends :
          (go_away_received[e] /\ last'.e = e) =>
              /\ (last'.op = "process") =>
                     /\ last'.res = "ERR_CLOSED"
                     /\ last'.consumed = 0
                     /\ last'.out = << >>
                     /\ stream'[e] = stream[e]
                     /\ streams'[e] = streams[e]
              /\ (last'.op = "read" /\ stream[e][last'.h].state # "CLOSED") =>
                     /\ last'.res = "OK"
                     /\ last'.data = Take(Unread(stream[e][last'.h].recvbuf), last'.arg)
                     /\ hist'[e][last'.h].got \o Unread(stream'[e][last'.h].recvbuf)
                            = hist[e][last'.h].rcvd
              /\ (last'.op = "close" /\ stream[e][last'.h].state # "CLOSED") =>
                     /\ last'.res = "OK"
                     /\ last'.out = yamux_encode_header(
                                        Header(YAMUX_DATA,
                                               IF last'.reset THEN YAMUX_FLAG_RST
                                               ELSE YAMUX_FLAG_FIN,
                                               stream[e][last'.h].id, 0))]_vars

\* the server drains a stream after the peer's GO_AWAY, while a frame that
\* arrived behind the GO_AWAY is still unread
C31_Witness ==
    /\ go_away_received["s"]
    /\ wire["s"] # << >>
    /\ last.op = "read"
    /\ last.e = "s"
    /\ last.res = "OK"
    /\ last.data = << 5, 6 >>

\* C32: when a server processes a WINDOW_UPDATE with SYN alone for a stream id
\* that is in its table, process returns protocol, every stream object and the
\* table are as before, the accept queue is as before and nothing is written.
C32_DuplicateSynIsProtocolError ==
    [][\A e \in Ends :
          (/\ WouldAllocate(e)
           /\ yamux_decode_header(Take(wire[e], YAMUX_HEADER_SIZE)).header.flags = YAMUX_FLAG_SYN
           /\ Addressed(e) # 0
           /\ last'.op = "process"
           /\ last'.e = e) =>
              /\ last'.res = "ERR_PROTOCOL"
              /\ stream'[e] = stream[e]
              /\ streams'[e] = streams[e]
              /\ accept_queue'[e] = accept_queue[e]
              /\ last'.out = << >>]_vars

\* a second SYN for a stream the application has already accepted
C32_Witness ==
    /\ last.op = "process"
    /\ last.e = "s"
    /\ last.res = "ERR_PROTOCOL"
    /\ last.header.type = YAMUX_WINDOW_UPDATE
    /\ last.header.flags = YAMUX_FLAG_SYN
    /\ last.h \in app["s"]
    /\ stream["s"][last.h].id = last.header.stream_id
    /\ stream["s"][last.h].state = "ESTABLISHED"

\* the transport at e holds fewer bytes than the next process call will ask
\* for, in the header read or in the payload read of the frame at its head
ReadFallsShort(e) ==
    \/ Len(wire[e]) < YAMUX_HEADER_SIZE
    \/ LET d == yamux_decode_header(Take(wire[e], YAMUX_HEADER_SIZE))
           rest == Len(wire[e]) - YAMUX_HEADER_SIZE
       IN  /\ d.res = "OK"
           /\ \/ d.header.type = YAMUX_DATA /\ rest < d.header.length
              \/ d.header.type \in {YAMUX_WINDOW_UPDATE, YAMUX_GO_AWAY} /\ rest < 4

\* C33: when process returns io because a read of the transport, for the header
\* or for the payload, came back short, every stream's state, send_window,
\* recv_window and receive buffer are as before the call and nothing was written.
C33_ShortReadHasNoEffect ==
    [][\A e \in Ends :
          (/\ ReadFallsShort(e)
           /\ last'.op = "process"
           /\ last'.e = e
           /\ last'.res = "ERR_IO") =>
              /\ stream'[e] = stream[e]
              /\ last'.out = << >>]_vars

\* the one buffer of SpecBuffer
TheBuffer == stream["c"][1].recvbuf

\* C34: under any interleaving of write, read and compact on a buffer,
\* 0 <= pos <= used <= size holds in every state, and the bytes returned by
\* all reads so far are a prefix of the bytes written so far; every read with
\* limit max returns exactly min(max, used - pos) bytes, the next unread ones,
\* and every compact keeps the unread bytes and leaves pos at 0.
C34_BufferInvariants ==
    /\ [](/\ 0 <= TheBuffer.pos
          /\ TheBuffer.pos <= Len(TheBuffer.data)
          /\ Len(TheBuffer.data) <= TheBuffer.size
          /\ IsPrefix(hist["c"][1].got, hist["c"][1].rcvd)
          /\ hist["c"][1].got \o Unread(TheBuffer) = hist["c"][1].rcvd)
    /\ [][/\ (last'.op = "buffer_read") =>
                 /\ last'.n = Min(last'.arg, Len(TheBuffer.data) - TheBuffer.pos)
                 /\ last'.data = Take(Unread(TheBuffer), last'.arg)
                 /\ TheBuffer'.pos = TheBuffer.pos + last'.n
          /\ (last'.op = "buffer_compact") =>
                 /\ Unread(TheBuffer') = Unread(TheBuffer)
                 /\ TheBuffer'.pos = 0
                 /\ TheBuffer'.size = TheBuffer.size
          /\ (last'.op = "buffer_write") =>
                 /\ Unread(TheBuffer') = Unread(TheBuffer) \o last'.data
                 /\ TheBuffer'.pos = TheBuffer.pos]_vars

\* three bytes read in two reads with a compaction of a partly read buffer in
\* between, a fourth byte written after it and still unread
C34_Witness ==
    /\ last.op = "buffer_read"
    /\ hist["c"][1].got = << 1, 2, 3 >>
    /\ TheBuffer.data = << 2, 3, 4 >>
    /\ TheBuffer.pos = 2
    /\ TheBuffer.size = 4

\* C35: opening is symmetric in the role.  When a client processes a SYN-only
\* WINDOW_UPDATE for an id not in its table, it creates the stream, puts it on
\* its accept queue and writes a SYN+ACK for that id; when a server processes
\* a SYN+ACK for a stream of its own in SYN_SENT, the stream becomes ESTABLISHED.
C35_OpenIsSymmetric ==
    [][/\ (/\ last'.op = "process"
           /\ last'.e = "c"
           /\ last'.decoded
           /\ last'.header.type = YAMUX_WINDOW_UPDATE
           /\ last'.header.flags = YAMUX_FLAG_SYN
           /\ last'.header.length = 4
           /\ last'.h = 0) =>
              /\ last'.res = "OK"
              /\ Len(stream'["c"]) = Len(stream["c"]) + 1
              /\ stream'["c"][Len(stream'["c"])].id = last'.header.stream_id
              /\ accept_queue'["c"] = Append(accept_queue["c"], Len(stream'["c"]))
              /\ Len(last'.out) = 16
              /\ yamux_decode_header(Take(last'.out, YAMUX_HEADER_SIZE)).header
                     = Header(YAMUX_WINDOW_UPDATE, YAMUX_FLAG_SYN + YAMUX_FLAG_ACK,
                              last'.header.stream_id, 4)
       /\ (/\ last'.op = "process"
           /\ last'.e = "s"
           /\ last'.decoded
           /\ last'.header.type = YAMUX_WINDOW_UPDATE
           /\ last'.header.flags = YAMUX_FLAG_SYN + YAMUX_FLAG_ACK
           /\ last'.header.length = 4
           /\ last'.h # 0
           /\ last'.pre = "SYN_SENT") =>
              /\ last'.res = "OK"
              /\ stream'["s"][last'.h].state = "ESTABLISHED"]_vars

\* C36: whenever an open, with the session's next id or with an id the caller
\* gives, returns an error, nothing has been written to the transport, the
\* session's next_stream_id is as before and the stream table is as before.
C36_FailedOpenHasNoEffect ==
    [][(last'.op = "open" /\ last'.res # "OK") =>
           /\ last'.out = << >>
           /\ next_stream_id'[last'.e] = next_stream_id[last'.e]
           /\ streams'[last'.e] = streams[last'.e]]_vars

\* C37: in every state every stream on a session's accept queue is in that
\* session's stream table, is not CLOSED and is on the queue once; and every
\* stream a successful accept returns was, before the call, in the table, not
\* CLOSED and not freed.
C37_AcceptQueueHoldsLiveStreams ==
    /\ [](\A e \in Ends : \A i \in 1..Len(accept_queue[e]) :
              /\ \E k \in 1..Len(streams[e]) : streams[e][k] = accept_queue[e][i]
              /\ stream[e][accept_queue[e][i]].state # "CLOSED"
              /\ \A j \in 1..Len(accept_queue[e]) :
                     accept_queue[e][j] = accept_queue[e][i] => j = i)
    /\ [][(last'.op = "accept" /\ last'.res = "OK") =>
              /\ \E k \in 1..Len(streams[last'.e]) : streams[last'.e][k] = last'.h
              /\ stream[last'.e][last'.h].state # "CLOSED"
              /\ ~stream[last'.e][last'.h].freed]_vars

\* C39: a write on a stream in IDLE, SYN_SENT or SYN_RECV writes nothing to the
\* transport, so that every write that emits DATA is made on a stream that is
\* ESTABLISHED at the sender.
C39_NoDataBeforeEstablished ==
    [][(last'.op = "write") =>
           /\ (last'.pre \in {"IDLE", "SYN_SENT", "SYN_RECV"}) => (last'.out = << >>)
           /\ (last'.out # << >>) => (last'.pre = "ESTABLISHED")]_vars

\* C38: with both endpoints running this engine with the default configuration,
\* the bytes received and not yet read that a stream's receive buffer holds
\* never number more than max_stream_window_size (262144).
C38_BufferedWithinWindow ==
    \A e \in Ends : \A h \in 1..Len(stream[e]) :
        FlowUnread(stream[e][h].recvbuf) <= YAMUX_DEFAULT_WINDOW_SIZE

\* a write of the client on stream 1 has just returned would_block
WriteBlocked ==
    last.op = "write" /\ last.e = "c" /\ last.res = "ERR_WOULD_BLOCK"

====
